---- MODULE Spec2Model ----
(***************************************************************************)
(* Model of the encrypted landing page: ClickHandler (click routing,       *)
(* auto-click, deeplink attempts, listener life cycle) and                 *)
(* DecryptionService (encrypt / decrypt / validateInstructionSet).         *)
(***************************************************************************)
EXTENDS Integers, Sequences, FiniteSets, TLC

(***************************************************************************)
(* Bounds of the model                                                     *)
(***************************************************************************)
\* Spec: deeplink attempts (hidden iframes) started over one run
MaxAttempts == 1
\* Spec: calls of the application into the ClickHandler over one run
MaxCalls == 2
\* SpecLife: calls of the application into the ClickHandler over one run
MaxLifeCalls == 3
\* SpecGesture: deeplink attempts started over one run
MaxGestureAttempts == 1
\* SpecGesture: calls of the application into the ClickHandler over one run
MaxGestureCalls == 1
\* SpecPage: deeplink attempts started over one run
MaxPageAttempts == 3
\* SpecPage: calls of the application into the ClickHandler over one run
MaxPageCalls == 2
MaxErrorAttempts == 1
\* SpecAttempt: deeplink attempts started over one run
MaxOpenAttempts == 2
\* SpecAttempt: calls of the application into the ClickHandler over one run
MaxOpenCalls == 1
MaxErrorCalls == 2
MaxPageLoads == 2
MaxPageTime == 9000
\* SpecParse: the longest head of a parameter value
MaxHeadLength == 3
\* SpecNormalize: the longest payload text
MaxTextLength == 4

(***************************************************************************)
(* Program constants of ClickHandler                                       *)
(***************************************************************************)
DEFAULT_AUTO_CLICK_DELAY == 3000
DEEPLINK_TIMEOUT == 2000
MAX_TOUCH_DURATION == 2000
MAX_TOUCH_MOVEMENT == 30
BLUR_MIN_DELAY == 100

(***************************************************************************)
(* Values                                                                  *)
(***************************************************************************)
\* JavaScript null for a URL field
Null == "<null>"
\* JavaScript null for auto_click_delay (validated delays are >= 0)
NullDelay == -1
\* JavaScript null for the timer handle (browser handles start at 1)
NullTimer == 0

ImageUrl == "https://a/b.gif"
ClickUrl == "https://x.test/c"
DeeplinkUrl == "myapp://open"
\* the strings of the model that new URL() parses, and one that it does not
AbsoluteUrls == {ImageUrl, ClickUrl, DeeplinkUrl}
NotAUrl == "not-a-valid-url"

\* the instants at which the environment may act, besides timer deadlines
RouteTimePoints == {0}
AttemptTimePoints == {0, 100, 101}
LifeTimePoints == {0, 100}
GestureTimePoints == {0, 2000, 2001}
\* auto_click_delay values handed to initialize
Delays == {NullDelay, 0, 1000}
\* touch coordinates
StartPoints == {<<0, 0>>, <<100, 100>>}
EndPoints == {<<18, 24>>, <<19, 24>>, <<105, 105>>}

\* this.instructionSet = null
NoInstructionSet ==
  [nul |-> TRUE, image_url |-> Null, click_url |-> Null, deeplink_url |-> Null,
   auto_click |-> FALSE, deeplink_priority |-> FALSE, auto_click_delay |-> NullDelay]

\* the InstructionSet values handed to ClickHandler.initialize
AllInstructionSets ==
  [nul : {FALSE}, image_url : {ImageUrl}, click_url : {Null, ClickUrl},
   deeplink_url : {Null, DeeplinkUrl}, auto_click : BOOLEAN,
   deeplink_priority : BOOLEAN, auto_click_delay : Delays]

\* Spec: every combination of click_url, deeplink_url and deeplink_priority,
\* without auto-click or with an auto-click after 1000 ms
RouteInstructionSets ==
  {I \in AllInstructionSets :
     I.auto_click_delay = (IF I.auto_click THEN 1000 ELSE NullDelay)}

\* SpecLife: a click_url only; without auto-click, or with auto-click and
\* every delay
LifeInstructionSets ==
  {I \in AllInstructionSets :
     /\ I.click_url # Null /\ I.deeplink_url = Null /\ ~I.deeplink_priority
     /\ I.auto_click \/ I.auto_click_delay = NullDelay}

\* SpecGesture: a click_url only or a deeplink_url only, no auto-click
GestureInstructionSets ==
  {I \in AllInstructionSets :
     /\ (I.click_url = Null) # (I.deeplink_url = Null)
     /\ ~I.deeplink_priority /\ ~I.auto_click /\ I.auto_click_delay = NullDelay}

\* SpecError: every combination of the routing fields, with a click_url that
\* may be a string new URL() does not parse; no auto-click
ErrorInstructionSets ==
  [nul : {FALSE}, image_url : {ImageUrl}, click_url : {Null, ClickUrl, NotAUrl},
   deeplink_url : {Null, DeeplinkUrl}, auto_click : {FALSE},
   deeplink_priority : BOOLEAN, auto_click_delay : {NullDelay}]

\* SpecAttempt: a deeplink_url only, or both URLs with deeplink_priority; no
\* auto-click
AttemptInstructionSets ==
  {I \in AllInstructionSets :
     /\ I.deeplink_url # Null /\ I.deeplink_priority = (I.click_url # Null)
     /\ ~I.auto_click /\ I.auto_click_delay = NullDelay}

\* SpecPage: a deeplink_url only, with or without an auto-click after 1000 ms,
\* a click_url only, or both URLs with deeplink_priority and an auto-click
\* after 1000 ms (an instruction set as decrypt returns it)
PageInstructionSets ==
  {I \in RouteInstructionSets :
     \/ /\ (I.click_url = Null) # (I.deeplink_url = Null)
        /\ ~I.deeplink_priority /\ (I.auto_click => I.click_url = Null)
     \/ /\ I.click_url # Null /\ I.deeplink_url # Null
        /\ I.deeplink_priority /\ I.auto_click}

EventTypes ==
  {"click", "mousedown", "mouseup", "touchstart", "touchend", "touchcancel",
   "pointerdown", "pointerup", "pointercancel", "contextmenu"}
PointerTypes == {"pointerdown", "pointerup", "pointercancel"}

\* this.interactionState = null (or not yet assigned)
NoInteractionState ==
  [nul |-> TRUE, isMouseDown |-> FALSE, isTouchActive |-> FALSE,
   isPointerActive |-> FALSE, lastInteractionType |-> Null,
   touchStartTime |-> 0, touchStartPosition |-> <<0, 0>>]

\* the object literal assigned in setupClickListeners
FreshInteractionState ==
  [nul |-> FALSE, isMouseDown |-> FALSE, isTouchActive |-> FALSE,
   isPointerActive |-> FALSE, lastInteractionType |-> Null,
   touchStartTime |-> 0, touchStartPosition |-> <<0, 0>>]

\* what one step did (overwritten by every step)
NoObs ==
  [op |-> "none", handlers |-> 0, routed |-> 0, navs |-> 0, opened |-> 0,
   tracked |-> 0, shown |-> 0, errors |-> 0, finished |-> 0, raised |-> 0,
   fired |-> {},
   point |-> <<0, 0>>, res |-> {}, wasSetup |-> FALSE]

VARIABLES
  instructionSet,      \* ClickHandler.instructionSet
  clickListenersSetup, \* ClickHandler.clickListenersSetup
  autoClickTimer,      \* ClickHandler.autoClickTimer (a timer handle)
  isProcessingClick,   \* ClickHandler.isProcessingClick
  interactionState,    \* ClickHandler.interactionState
  listeners,           \* document.body listeners: event type -> set of bound functions
  nextBind,            \* next bound-function generation (Function.prototype.bind)
  timers,              \* pending auto-click timers: set of [id, deadline, ...]
  nextTimer,           \* next timer handle
  attempts,            \* deeplink attempts (attemptDeeplinkOpen closures), in creation order
  location,            \* window.location.href
  errorMessage,        \* text of #error-message
  hidden,              \* document.hidden
  hasPointerEvent,     \* window.PointerEvent is defined
  now,                 \* Date.now()
  cancelled,           \* history: timer handles passed to clearTimeout
  calls,               \* history: number of calls of the application
  obs,                 \* history: what the last step did
  app,                 \* the page around the handler: App, ErrorHandler, URL, timers
  encryptionKey,       \* DecryptionService.encryptionKey (character codes)
  payloadParam,        \* the payload at hand: returned by encrypt or taken from the URL
  given,               \* history: what the payload at hand was made of
  outcome              \* history: the last operation of the service and its result

clickVars ==
  <<instructionSet, clickListenersSetup, autoClickTimer, isProcessingClick,
    interactionState, listeners, nextBind, timers, nextTimer, attempts,
    location, errorMessage, hidden, hasPointerEvent, now, cancelled, calls, obs,
    app>>

serviceVars == <<encryptionKey, payloadParam, given, outcome>>

vars == <<clickVars, serviceVars>>

\* the whole state as one record, so that handlers compose
Cur ==
  [instructionSet |-> instructionSet, clickListenersSetup |-> clickListenersSetup,
   autoClickTimer |-> autoClickTimer, isProcessingClick |-> isProcessingClick,
   interactionState |-> interactionState, listeners |-> listeners,
   nextBind |-> nextBind, timers |-> timers, nextTimer |-> nextTimer,
   attempts |-> attempts, location |-> location, errorMessage |-> errorMessage,
   hidden |-> hidden, hasPointerEvent |-> hasPointerEvent, now |-> now,
   cancelled |-> cancelled, calls |-> calls, obs |-> NoObs, app |-> app]

Become(s) ==
  /\ instructionSet' = s.instructionSet
  /\ clickListenersSetup' = s.clickListenersSetup
  /\ autoClickTimer' = s.autoClickTimer
  /\ isProcessingClick' = s.isProcessingClick
  /\ interactionState' = s.interactionState
  /\ listeners' = s.listeners
  /\ nextBind' = s.nextBind
  /\ timers' = s.timers
  /\ nextTimer' = s.nextTimer
  /\ attempts' = s.attempts
  /\ location' = s.location
  /\ errorMessage' = s.errorMessage
  /\ hidden' = s.hidden
  /\ hasPointerEvent' = s.hasPointerEvent
  /\ now' = s.now
  /\ cancelled' = s.cancelled
  /\ calls' = s.calls
  /\ obs' = s.obs
  /\ app' = s.app
  /\ UNCHANGED serviceVars

\* an uncaught exception leaves the handler (TypeError on a null reference)
Throw(s) == [s EXCEPT !.obs.errors = @ + 1]

(***************************************************************************)
(* ClickHandler: navigation, tracking, errors                              *)
(***************************************************************************)
\* showErrorMessage(message)
showErrorMessage(s, message) ==
  [s EXCEPT !.errorMessage = message, !.obs.shown = @ + 1]

\* handleClickError(error, actionType)
handleClickError(s) == showErrorMessage(s, "Navigation failed. Please try again.")

\* history: an error is thrown inside the try block of processClickAction
Raise(s) == [s EXCEPT !.obs.raised = @ + 1]

\* trackClickAction(actionType): its body is wrapped in try/catch; on a null
\* instructionSet the TypeError is logged and swallowed and nothing is recorded
trackClickAction(s) ==
  IF s.instructionSet.nul THEN s ELSE [s EXCEPT !.obs.tracked = @ + 1]

\* openClickUrl(clickUrl) throws 'Invalid click URL' when new URL(clickUrl) throws
openClickUrlThrows(clickUrl) == clickUrl # Null /\ clickUrl \notin AbsoluteUrls

\* openClickUrl(clickUrl), when it returns
openClickUrl(s, clickUrl) ==
  IF clickUrl = Null \/ openClickUrlThrows(clickUrl) THEN s
  ELSE [s EXCEPT !.location = clickUrl, !.obs.navs = @ + 1]

(***************************************************************************)
(* ClickHandler: deeplink attempts and the routing decision                *)
(***************************************************************************)
\* the closure created by one call of attemptDeeplinkOpen: the iframe, the
\* timeout and the two listeners it installs.  cont names the await the
\* caller is suspended at ("done" once the promise is resolved).  History
\* fields, kept while the routing is suspended: hadClick (click_url was set
\* when the routing started) and replaced (this.instructionSet was assigned
\* since).
NewAttempt(s, cont) ==
  [start |-> s.now, cont |-> cont, timeout |-> TRUE, vis |-> TRUE,
   blur |-> TRUE, iframe |-> TRUE, resolved |-> FALSE,
   hadClick |-> s.instructionSet.click_url # Null, replaced |-> FALSE]

\* attemptDeeplinkOpen(deeplinkUrl), up to the point where it returns the
\* pending promise
attemptDeeplinkOpen(s, cont) ==
  [s EXCEPT !.attempts = Append(@, NewAttempt(s, cont)), !.obs.opened = @ + 1]

\* the finally block of processClickAction
Finally(s) == [s EXCEPT !.isProcessingClick = FALSE, !.obs.finished = @ + 1]

\* mutant: click_url is tried before the deeplink priority branch
processClickAction_ClickFirst(s) ==
  IF s.instructionSet.nul THEN s
  ELSE
    LET I == s.instructionSet
        s1 == [s EXCEPT !.isProcessingClick = TRUE, !.obs.routed = @ + 1]
    IN  IF I.click_url = Null /\ I.deeplink_url = Null THEN Finally(s1)
        ELSE IF openClickUrlThrows(I.click_url)
          THEN Finally(handleClickError(Raise(s1)))
        ELSE IF I.click_url # Null
          THEN Finally(trackClickAction(openClickUrl(s1, I.click_url)))
        ELSE IF I.deeplink_priority
          THEN attemptDeeplinkOpen(s1, "fallback")
        ELSE attemptDeeplinkOpen(s1, "only")

\* processClickAction(actionType), up to its first await or to its end
processClickAction(s) ==
  IF s.instructionSet.nul THEN s
  ELSE
    LET I == s.instructionSet
        s1 == [s EXCEPT !.isProcessingClick = TRUE, !.obs.routed = @ + 1]
    IN  IF I.click_url = Null /\ I.deeplink_url = Null THEN Finally(s1)
        ELSE IF I.deeplink_priority /\ I.deeplink_url # Null
          THEN attemptDeeplinkOpen(s1, "fallback")
        ELSE IF openClickUrlThrows(I.click_url)
          THEN Finally(handleClickError(Raise(s1)))
        ELSE IF I.click_url # Null
          THEN Finally(trackClickAction(openClickUrl(s1, I.click_url)))
        ELSE attemptDeeplinkOpen(s1, "only")

\* attemptDeeplinkWithFallback after its await: does an error leave it?
\* (this.instructionSet.click_url on a null instructionSet throws in the try
\* block and again in the catch block; so does openClickUrl on a click_url
\* that is not a URL, which the catch block calls a second time)
fallbackThrows(s, deeplinkSuccess) ==
  /\ ~deeplinkSuccess
  /\ s.instructionSet.nul \/ openClickUrlThrows(s.instructionSet.click_url)

\* mutant: the fallback is taken whatever the attempt resolved to
attemptDeeplinkWithFallback_Always(s, deeplinkSuccess) ==
  IF s.instructionSet.nul THEN s
  ELSE openClickUrl(s, s.instructionSet.click_url)

\* attemptDeeplinkWithFallback after its await, when no error leaves it
attemptDeeplinkWithFallback(s, deeplinkSuccess) ==
  IF deeplinkSuccess \/ s.instructionSet.nul THEN s
  ELSE openClickUrl(s, s.instructionSet.click_url)

\* processClickAction after its await: the rest of the try block, the catch
\* block and the finally block
resumeProcessClickAction(s, cont, deeplinkSuccess) ==
  IF cont = "fallback" /\ fallbackThrows(s, deeplinkSuccess)
    THEN Finally(handleClickError(Raise(s)))
  ELSE IF cont = "fallback"
    THEN Finally(trackClickAction(attemptDeeplinkWithFallback(s, deeplinkSuccess)))
  ELSE Finally(trackClickAction(s))

\* resolve(value) of attempt i: a promise resolves once; the awaiting
\* routing continues in the microtasks that follow
resolve(s, i, value) ==
  IF s.attempts[i].resolved THEN s
  ELSE
    LET a == s.attempts[i]
        t == resumeProcessClickAction(
               [s EXCEPT !.attempts[i].resolved = TRUE, !.attempts[i].cont = "done",
                         !.attempts[i].hadClick = FALSE, !.attempts[i].replaced = FALSE],
               a.cont, value)
    IN  \* history: what this routing resolved to and how often it navigated
        [t EXCEPT !.obs.res = @ \cup {[cont |-> a.cont, value |-> value,
                                       hadClick |-> a.hadClick, replaced |-> a.replaced,
                                       navs |-> t.obs.navs - s.obs.navs]}]

\* document.body.removeChild(iframe) followed by resolve(value): removeChild
\* throws when the iframe is no longer a child, and resolve is not reached
removeChildAndResolve(s, i, value) ==
  IF s.attempts[i].iframe
    THEN resolve([s EXCEPT !.attempts[i].iframe = FALSE], i, value)
  ELSE Throw(s)

\* the setTimeout callback of attempt i
deeplinkTimeout(s, i) ==
  removeChildAndResolve([s EXCEPT !.attempts[i].timeout = FALSE], i, FALSE)

\* visibilityHandler of attempt i
visibilityHandler(s, i) ==
  IF s.hidden
    THEN removeChildAndResolve(
           [s EXCEPT !.attempts[i].timeout = FALSE, !.attempts[i].vis = FALSE],
           i, TRUE)
  ELSE s

\* mutant: no delay test
blurHandler_NoDelay(s, i) ==
  removeChildAndResolve(
    [s EXCEPT !.attempts[i].timeout = FALSE, !.attempts[i].blur = FALSE,
              !.attempts[i].vis = FALSE],
    i, TRUE)

\* blurHandler of attempt i
blurHandler(s, i) ==
  IF s.now - s.attempts[i].start > BLUR_MIN_DELAY
    THEN removeChildAndResolve(
           [s EXCEPT !.attempts[i].timeout = FALSE, !.attempts[i].blur = FALSE,
                     !.attempts[i].vis = FALSE],
           i, TRUE)
  ELSE s

(***************************************************************************)
(* ClickHandler: event handlers                                            *)
(***************************************************************************)
\* handleClick(event)
handleClick(s) ==
  IF s.isProcessingClick THEN s ELSE processClickAction(s)

\* handleMouseDown(event)
handleMouseDown(s) ==
  IF s.interactionState.nul THEN Throw(s)
  ELSE [s EXCEPT !.interactionState.isMouseDown = TRUE,
                 !.interactionState.lastInteractionType = "mouse"]

\* handleMouseUp(event)
handleMouseUp(s) ==
  IF s.interactionState.nul THEN Throw(s)
  ELSE [s EXCEPT !.interactionState.isMouseDown = FALSE]

\* handleTouchStart(event), event.touches[0] = p
handleTouchStart(s, p) ==
  IF s.interactionState.nul THEN Throw(s)
  ELSE [s EXCEPT !.interactionState.isTouchActive = TRUE,
                 !.interactionState.lastInteractionType = "touch",
                 !.interactionState.touchStartTime = s.now,
                 !.interactionState.touchStartPosition = p]

\* the square of touchMovement
Movement2(from, to) ==
  (to[1] - from[1]) * (to[1] - from[1]) + (to[2] - from[2]) * (to[2] - from[2])

\* handleTouchEnd(event), event.changedTouches[0] = p
handleTouchEnd(s, p) ==
  IF s.interactionState.nul THEN Throw(s)
  ELSE IF ~s.interactionState.isTouchActive THEN s
  ELSE IF s.isProcessingClick THEN s
  ELSE
    LET touchDuration == s.now - s.interactionState.touchStartTime
        touchMovement2 == Movement2(s.interactionState.touchStartPosition, p)
        s1 == [s EXCEPT !.interactionState.isTouchActive = FALSE]
    IN  IF touchDuration > MAX_TOUCH_DURATION THEN s1
        ELSE IF touchMovement2 > MAX_TOUCH_MOVEMENT * MAX_TOUCH_MOVEMENT THEN s1
        ELSE processClickAction(s1)

\* handleTouchCancel(event)
handleTouchCancel(s) ==
  IF s.interactionState.nul THEN Throw(s)
  ELSE [s EXCEPT !.interactionState.isTouchActive = FALSE]

\* handlePointerDown(event)
handlePointerDown(s) ==
  IF s.interactionState.nul THEN Throw(s)
  ELSE [s EXCEPT !.interactionState.isPointerActive = TRUE,
                 !.interactionState.lastInteractionType = "pointer"]

\* mutant: no lastInteractionType test
handlePointerUp_AnyType(s) ==
  IF s.interactionState.nul THEN Throw(s)
  ELSE IF ~s.interactionState.isPointerActive THEN s
  ELSE IF s.isProcessingClick THEN s
  ELSE processClickAction([s EXCEPT !.interactionState.isPointerActive = FALSE])

\* handlePointerUp(event)
handlePointerUp(s) ==
  IF s.interactionState.nul THEN Throw(s)
  ELSE IF ~s.interactionState.isPointerActive THEN s
  ELSE IF s.isProcessingClick THEN s
  ELSE
    LET s1 == [s EXCEPT !.interactionState.isPointerActive = FALSE]
    IN  IF s.interactionState.lastInteractionType = "pointer"
          THEN processClickAction(s1)
        ELSE s1

\* handlePointerCancel(event)
handlePointerCancel(s) ==
  IF s.interactionState.nul THEN Throw(s)
  ELSE [s EXCEPT !.interactionState.isPointerActive = FALSE]

\* handleContextMenu(event): reads lastInteractionType, changes no state
handleContextMenu(s) ==
  IF s.interactionState.nul THEN Throw(s) ELSE s

\* one invocation of the handler bound for event type e
Handler(e, s, p) ==
  LET s0 == [s EXCEPT !.obs.handlers = @ + 1]
  IN  CASE e = "click" -> handleClick(s0)
        [] e = "mousedown" -> handleMouseDown(s0)
        [] e = "mouseup" -> handleMouseUp(s0)
        [] e = "touchstart" -> handleTouchStart(s0, p)
        [] e = "touchend" -> handleTouchEnd(s0, p)
        [] e = "touchcancel" -> handleTouchCancel(s0)
        [] e = "pointerdown" -> handlePointerDown(s0)
        [] e = "pointerup" -> handlePointerUp(s0)
        [] e = "pointercancel" -> handlePointerCancel(s0)
        [] OTHER -> handleContextMenu(s0)

RECURSIVE Invoke(_, _, _, _)
\* the browser calls the n functions registered for e one after the other;
\* an exception in one of them does not stop the others
Invoke(e, s, p, n) ==
  IF n = 0 THEN s ELSE Invoke(e, Handler(e, s, p), p, n - 1)

\* document.body.dispatchEvent of an event of type e
dispatchEvent(s, e, p) == Invoke(e, s, p, Cardinality(s.listeners[e]))

(***************************************************************************)
(* ClickHandler: life cycle and the auto-click timer                       *)
(***************************************************************************)
\* mutant: the timer is not removed
clearTimeout_Keep(s, handle) ==
  [s EXCEPT !.cancelled = @ \cup {handle}]

\* clearTimeout(handle)
clearTimeout(s, handle) ==
  [s EXCEPT !.timers = {t \in @ : t.id # handle},
            !.cancelled = @ \cup {handle}]

\* the event types setupClickListeners and destroy go through
RegisteredTypes(s) ==
  IF s.hasPointerEvent THEN EventTypes ELSE EventTypes \ PointerTypes

\* document.body.addEventListener(e, fn, options) for every e in types
addEventListeners(s, types, fn) ==
  [s EXCEPT !.listeners = [e \in EventTypes |->
                             IF e \in types THEN @[e] \cup {fn} ELSE @[e]]]

\* document.body.removeEventListener(e, fn, options) for every e in types:
\* removes the listener whose function is fn, if there is one
removeEventListeners(s, types, fn) ==
  [s EXCEPT !.listeners = [e \in EventTypes |->
                             IF e \in types THEN @[e] \ {fn} ELSE @[e]]]

\* this.handleX.bind(this): every call returns a new function object; the
\* functions bound in one pass share one generation number
bind(s) == s.nextBind

\* mutant: no clickListenersSetup guard
setupClickListeners_Unguarded(s) ==
  LET s1 == addEventListeners(s, RegisteredTypes(s), bind(s))
  IN  [s1 EXCEPT !.nextBind = @ + 1,
                 !.interactionState = FreshInteractionState,
                 !.clickListenersSetup = TRUE]

\* setupClickListeners()
setupClickListeners(s) ==
  IF s.clickListenersSetup THEN s
  ELSE
    LET s1 == addEventListeners(s, RegisteredTypes(s), bind(s))
    IN  [s1 EXCEPT !.nextBind = @ + 1,
                   !.interactionState = FreshInteractionState,
                   !.clickListenersSetup = TRUE]

\* const delay = this.instructionSet.auto_click_delay || this.DEFAULT_AUTO_CLICK_DELAY
AutoClickDelay(I) ==
  IF I.auto_click_delay = NullDelay \/ I.auto_click_delay = 0
    THEN DEFAULT_AUTO_CLICK_DELAY
  ELSE I.auto_click_delay

\* scheduleAutoClick()
scheduleAutoClick(s) ==
  IF ~s.instructionSet.auto_click THEN s
  ELSE
    LET s1 == IF s.autoClickTimer # NullTimer
                THEN clearTimeout(s, s.autoClickTimer) ELSE s
    IN  \* armed and requested are history fields
        [s1 EXCEPT !.timers = @ \cup {[id |-> s.nextTimer,
                                       deadline |-> s.now + AutoClickDelay(s.instructionSet),
                                       armed |-> s.now,
                                       requested |-> s.instructionSet.auto_click_delay]},
                   !.autoClickTimer = s.nextTimer,
                   !.nextTimer = @ + 1]

\* cancelAutoClick()
cancelAutoClick(s) ==
  IF s.autoClickTimer # NullTimer
    THEN [clearTimeout(s, s.autoClickTimer) EXCEPT !.autoClickTimer = NullTimer]
  ELSE s

\* initialize(instructionSet)
initialize(s, I) ==
  LET s1 == setupClickListeners([s EXCEPT !.instructionSet = I])
  IN  IF I.auto_click THEN scheduleAutoClick(s1) ELSE s1

\* history: the routings that are suspended lose their instruction set
MarkReplaced(s) ==
  [s EXCEPT !.attempts = [i \in DOMAIN @ |->
                            IF @[i].resolved THEN @[i]
                            ELSE [@[i] EXCEPT !.replaced = TRUE]]]

\* the listener removal of destroy(): it binds the handlers again and hands
\* these new functions to removeEventListener
destroyListeners(s) ==
  IF s.clickListenersSetup
    THEN [removeEventListeners(s, RegisteredTypes(s), bind(s))
            EXCEPT !.nextBind = @ + 1, !.clickListenersSetup = FALSE]
  ELSE s

\* destroy()
destroy(s) ==
  [destroyListeners(cancelAutoClick(s))
     EXCEPT !.instructionSet = NoInstructionSet,
            !.isProcessingClick = FALSE,
            !.interactionState = NoInteractionState]

(***************************************************************************)
(* DecryptionService: JavaScript values                                    *)
(***************************************************************************)
\* a JavaScript value: its type and its content
Undefined == [t |-> "undefined", s |-> "", n |-> 0, b |-> FALSE]
JNull == [t |-> "null", s |-> "", n |-> 0, b |-> FALSE]
Str(x) == [t |-> "string", s |-> x, n |-> 0, b |-> FALSE]
Num(x) == [t |-> "number", s |-> "", n |-> x, b |-> FALSE]
Bool(x) == [t |-> "boolean", s |-> "", n |-> 0, b |-> x]
NaN == [t |-> "number", s |-> "NaN", n |-> 0, b |-> FALSE]

\* ToBoolean: what `!v`, `v || w` and Boolean(v) test
Truthy(v) ==
  CASE v.t = "boolean" -> v.b
    [] v.t = "number" -> v # NaN /\ v.n # 0
    [] v.t = "string" -> v.s # ""
    [] OTHER -> FALSE

\* v || null
OrNull(v) == IF Truthy(v) THEN v ELSE JNull

\* Number(v) for the values of the model: no string of the model is numeric
Number(v) ==
  CASE v.t = "number" -> v
    [] v.t = "null" -> Num(0)
    [] v.t = "boolean" -> Num(IF v.b THEN 1 ELSE 0)
    [] v.t = "string" -> IF v.s = "" THEN Num(0) ELSE NaN
    [] OTHER -> NaN

isValidUrl(v) == v.t = "string" /\ v.s \in AbsoluteUrls

Fields ==
  <<"image_url", "click_url", "deeplink_url", "auto_click", "deeplink_priority",
    "auto_click_delay">>

\* an object with the six fields of an instruction set
Object(image, click, deeplink, auto, priority, delay) ==
  [image_url |-> image, click_url |-> click, deeplink_url |-> deeplink,
   auto_click |-> auto, deeplink_priority |-> priority, auto_click_delay |-> delay]

NoObject == Object(Undefined, Undefined, Undefined, Undefined, Undefined, Undefined)

\* the result of an operation of the service: a value, or the Error thrown
\* (message, and originalError or the message that was wrapped)
Return(value, aead) ==
  [ok |-> TRUE, value |-> value, bytes |-> <<>>, error |-> "", cause |-> "",
   aead |-> aead]
ReturnBytes(bytes) ==
  [ok |-> TRUE, value |-> NoObject, bytes |-> bytes, error |-> "", cause |-> "",
   aead |-> 0]
Fail(message, aead) ==
  [ok |-> FALSE, value |-> NoObject, bytes |-> <<>>, error |-> message,
   cause |-> "", aead |-> aead]

(***************************************************************************)
(* DecryptionService: validation                                           *)
(***************************************************************************)
\* mutant: image_url is the required field, as the typedef has it
validateInstructionSet_ImageRequired(data) ==
  IF ~Truthy(data.image_url) \/ data.image_url.t # "string"
  THEN Fail("Invalid instruction set - image_url is required and must be a string", 0)
  ELSE IF ~isValidUrl(data.image_url)
  THEN Fail("Invalid instruction set - image_url must be a valid URL", 0)
  ELSE
    LET set == Object(data.image_url, OrNull(data.click_url),
                      OrNull(data.deeplink_url), Bool(Truthy(data.auto_click)),
                      Bool(Truthy(data.deeplink_priority)), JNull)
        delay == Number(data.auto_click_delay)
    IN  IF Truthy(set.click_url) /\ ~isValidUrl(set.click_url)
        THEN Fail("Invalid instruction set - click_url must be a valid URL", 0)
        ELSE IF Truthy(set.deeplink_url) /\ set.deeplink_url.t # "string"
        THEN Fail("Invalid instruction set - deeplink_url must be a string", 0)
        ELSE IF data.auto_click_delay # Undefined
        THEN IF delay = NaN \/ delay.n < 0
             THEN Fail("Invalid instruction set - auto_click_delay must be a non-negative number", 0)
             ELSE Return([set EXCEPT !.auto_click_delay = delay], 0)
        ELSE Return(set, 0)

\* mutant: the delay is stored without the test of its sign
validateInstructionSet_AnyDelay(data) ==
  IF ~Truthy(data.click_url) \/ data.click_url.t # "string"
  THEN Fail("Invalid instruction set - click_url is required and must be a string", 0)
  ELSE IF Truthy(data.image_url) /\ ~isValidUrl(data.image_url)
  THEN Fail("Invalid instruction set - image_url must be a valid URL", 0)
  ELSE
    LET set == Object(data.image_url, OrNull(data.click_url),
                      OrNull(data.deeplink_url), Bool(Truthy(data.auto_click)),
                      Bool(Truthy(data.deeplink_priority)), JNull)
        delay == Number(data.auto_click_delay)
    IN  IF Truthy(set.click_url) /\ ~isValidUrl(set.click_url)
        THEN Fail("Invalid instruction set - click_url must be a valid URL", 0)
        ELSE IF Truthy(set.deeplink_url) /\ set.deeplink_url.t # "string"
        THEN Fail("Invalid instruction set - deeplink_url must be a string", 0)
        ELSE IF data.auto_click_delay # Undefined
        THEN Return([set EXCEPT !.auto_click_delay = delay], 0)
        ELSE Return(set, 0)

validateInstructionSet(data) ==
  IF ~Truthy(data.click_url) \/ data.click_url.t # "string"
  THEN Fail("Invalid instruction set - click_url is required and must be a string", 0)
  ELSE IF Truthy(data.image_url) /\ ~isValidUrl(data.image_url)
  THEN Fail("Invalid instruction set - image_url must be a valid URL", 0)
  ELSE
    LET set == Object(data.image_url, OrNull(data.click_url),
                      OrNull(data.deeplink_url), Bool(Truthy(data.auto_click)),
                      Bool(Truthy(data.deeplink_priority)), JNull)
        delay == Number(data.auto_click_delay)
    IN  IF Truthy(set.click_url) /\ ~isValidUrl(set.click_url)
        THEN Fail("Invalid instruction set - click_url must be a valid URL", 0)
        ELSE IF Truthy(set.deeplink_url) /\ set.deeplink_url.t # "string"
        THEN Fail("Invalid instruction set - deeplink_url must be a string", 0)
        ELSE IF data.auto_click_delay # Undefined
        THEN IF delay = NaN \/ delay.n < 0
             THEN Fail("Invalid instruction set - auto_click_delay must be a non-negative number", 0)
             ELSE Return([set EXCEPT !.auto_click_delay = delay], 0)
        ELSE Return(set, 0)

(***************************************************************************)
(* DecryptionService: JSON text.  The text of an object is written as one  *)
(* byte for the opening brace and one byte per field: 0 for a field that   *)
(* is left out, or the place of its value among the JSON values.           *)
(***************************************************************************)
OpenBrace == 123

JsonValues ==
  <<JNull, Bool(FALSE), Bool(TRUE), Num(0), Num(1000), Num(5000),
    Str(ImageUrl), Str(ClickUrl), Str(DeeplinkUrl), Str(NotAUrl)>>

\* JSON.stringify of one property: undefined is left out, NaN becomes null
JsonCode(v) ==
  IF v = Undefined THEN 0
  ELSE LET w == IF v = NaN THEN JNull ELSE v
       IN  CHOOSE i \in 1..Len(JsonValues) : JsonValues[i] = w

\* new TextEncoder().encode(JSON.stringify(object))
stringify(object) ==
  <<OpenBrace>> \o [i \in 1..Len(Fields) |-> JsonCode(object[Fields[i]])]

\* a property that the text does not hold reads as undefined
JsonValue(code) == IF code = 0 THEN Undefined ELSE JsonValues[code]

\* JSON.parse(new TextDecoder().decode(bytes)); a SyntaxError is not ok
parse(bytes) ==
  IF /\ Len(bytes) = Len(Fields) + 1
     /\ bytes[1] = OpenBrace
     /\ \A i \in 2..Len(bytes) : bytes[i] \in 0..Len(JsonValues)
  THEN Return(Object(JsonValue(bytes[2]), JsonValue(bytes[3]), JsonValue(bytes[4]),
                     JsonValue(bytes[5]), JsonValue(bytes[6]), JsonValue(bytes[7])), 0)
  ELSE Fail("SyntaxError", 0)

parseInstructionSet(decryptedBytes) ==
  LET rawData == parse(decryptedBytes)
  IN  IF ~rawData.ok THEN Fail("Invalid JSON format in decrypted payload", 0)
      ELSE validateInstructionSet(rawData.value)

(***************************************************************************)
(* DecryptionService: the key and AES-GCM.  The cipher is a stand-in with  *)
(* the interface of crypto.subtle: the ciphertext is as long as the        *)
(* plaintext, a tag of TAG_LENGTH bytes follows it, and decryption fails   *)
(* unless the tag belongs to the key, the IV and the ciphertext.           *)
(***************************************************************************)
IV_LENGTH == 12
TAG_LENGTH == 16
KEY_BYTES == 32
MIN_KEY_LENGTH == 16
ZeroChar == 48

\* 'default-encryption-key-32-chars!!' (33 characters)
DefaultKey ==
  <<100, 101, 102, 97, 117, 108, 116, 45, 101, 110, 99, 114, 121, 112, 116, 105,
    111, 110, 45, 107, 101, 121, 45, 51, 50, 45, 99, 104, 97, 114, 115, 33, 33>>
\* 'my-custom-key-for-testing-123456' (32 characters)
CustomKey ==
  <<109, 121, 45, 99, 117, 115, 116, 111, 109, 45, 107, 101, 121, 45, 102, 111,
    114, 45, 116, 101, 115, 116, 105, 110, 103, 45, 49, 50, 51, 52, 53, 54>>
\* 'short' (5 characters)
ShortKey == <<115, 104, 111, 114, 116>>

Keys == {DefaultKey, CustomKey, ShortKey}

\* mutant: every key passes
validateDecryptionKey_Always(key) == TRUE

validateDecryptionKey(key) == Len(key) >= MIN_KEY_LENGTH

\* new TextEncoder().encode(keyString.padEnd(32, '0').substring(0, 32))
importKey(keyString) ==
  [i \in 1..KEY_BYTES |-> IF i <= Len(keyString) THEN keyString[i] ELSE ZeroChar]

RECURSIVE WeightedSum(_, _)
WeightedSum(bytes, i) ==
  IF i > Len(bytes) THEN 0 ELSE i * bytes[i] + WeightedSum(bytes, i + 1)

KeyStream(key, iv, i) == key[((i - 1) % KEY_BYTES) + 1] + iv[((i - 1) % IV_LENGTH) + 1]

AuthTag(key, iv, ciphertext) ==
  LET sum == WeightedSum(key, 1) + 3 * WeightedSum(iv, 1) + 7 * WeightedSum(ciphertext, 1)
  IN  [j \in 1..TAG_LENGTH |-> (sum * j + j) % 256]

\* crypto.subtle.encrypt({name: 'AES-GCM', iv}, key, plaintext)
subtleEncrypt(key, iv, plaintext) ==
  LET ciphertext == [i \in 1..Len(plaintext) |-> (plaintext[i] + KeyStream(key, iv, i)) % 256]
  IN  ciphertext \o AuthTag(key, iv, ciphertext)

\* crypto.subtle.decrypt({name: 'AES-GCM', iv}, key, data): an OperationError
\* is not ok
subtleDecrypt(key, iv, data) ==
  IF Len(data) < TAG_LENGTH THEN Fail("OperationError", 1)
  ELSE
    LET ciphertext == SubSeq(data, 1, Len(data) - TAG_LENGTH)
        tag == SubSeq(data, Len(data) - TAG_LENGTH + 1, Len(data))
    IN  IF tag # AuthTag(key, iv, ciphertext) THEN Fail("OperationError", 1)
        ELSE ReturnBytes([i \in 1..Len(ciphertext) |->
                            (ciphertext[i] + 512 - KeyStream(key, iv, i)) % 256])

(***************************************************************************)
(* DecryptionService: base64.  A character of a payload is its place in    *)
(* the base64 alphabet, 0..63 ('+' is 62, '/' is 63), or one of the marks  *)
(* below.                                                                  *)
(***************************************************************************)
Plus == 62
Slash == 63
Pad == 64
Minus == 65
Underscore == 66
Space == 67

Replace(string, from, to) ==
  [i \in 1..Len(string) |-> IF string[i] = from THEN to ELSE string[i]]

\* '='.repeat(4 - length % 4) when length % 4 > 0
Padding(string) ==
  IF Len(string) % 4 > 0 THEN [i \in 1..(4 - (Len(string) % 4)) |-> Pad] ELSE <<>>

RECURSIVE StripPad(_)
\* string.replace(/=+$/, '')
StripPad(string) ==
  IF string # <<>> /\ string[Len(string)] = Pad
  THEN StripPad(SubSeq(string, 1, Len(string) - 1))
  ELSE string

RECURSIVE btoa(_)
\* btoa(String.fromCharCode.apply(null, bytes))
btoa(bytes) ==
  CASE Len(bytes) = 0 -> <<>>
    [] Len(bytes) = 1 ->
         <<bytes[1] \div 4, (bytes[1] % 4) * 16, Pad, Pad>>
    [] Len(bytes) = 2 ->
         <<bytes[1] \div 4, (bytes[1] % 4) * 16 + bytes[2] \div 16,
           (bytes[2] % 16) * 4, Pad>>
    [] OTHER ->
         <<bytes[1] \div 4, (bytes[1] % 4) * 16 + bytes[2] \div 16,
           (bytes[2] % 16) * 4 + bytes[3] \div 64, bytes[3] % 64>>
         \o btoa(SubSeq(bytes, 4, Len(bytes)))

RECURSIVE DecodeSextets(_)
\* three bytes of four characters; the bits left over at the end are dropped
DecodeSextets(c) ==
  CASE Len(c) <= 1 -> <<>>
    [] Len(c) = 2 -> <<c[1] * 4 + c[2] \div 16>>
    [] Len(c) = 3 -> <<c[1] * 4 + c[2] \div 16, (c[2] % 16) * 16 + c[3] \div 4>>
    [] OTHER ->
         <<c[1] * 4 + c[2] \div 16, (c[2] % 16) * 16 + c[3] \div 4,
           (c[3] % 4) * 64 + c[4]>>
         \o DecodeSextets(SubSeq(c, 5, Len(c)))

\* atob(string), the forgiving-base64 decode of the browser: white space is
\* dropped, one or two '=' end a string whose length is a multiple of 4, and
\* any other character outside the alphabet is an InvalidCharacterError
atob(string) ==
  LET data == SelectSeq(string, LAMBDA c : c # Space)
      n == Len(data)
      body == IF n > 0 /\ n % 4 = 0 /\ data[n] = Pad
              THEN IF data[n - 1] = Pad THEN SubSeq(data, 1, n - 2)
                   ELSE SubSeq(data, 1, n - 1)
              ELSE data
  IN  IF Len(body) % 4 = 1 \/ \E i \in 1..Len(body) : body[i] \notin 0..63
      THEN Fail("InvalidCharacterError", 0)
      ELSE ReturnBytes(DecodeSextets(body))

\* normalizedBase64 of base64ToArrayBuffer: spaces to '+', URL-safe characters
\* to standard ones, then padding
normalizedBase64(base64) ==
  LET urlSafe == Replace(Replace(Replace(base64, Space, Plus), Minus, Plus),
                         Underscore, Slash)
  IN  urlSafe \o Padding(urlSafe)

\* mutant: the URL-safe characters are not replaced
base64ToArrayBuffer_Standard(base64) ==
  IF base64 = <<>> THEN Fail("Failed to decode base64 payload: Empty payload provided", 0)
  ELSE
    LET spaced == Replace(base64, Space, Plus)
        binaryString == atob(spaced \o Padding(spaced))
    IN  IF binaryString.ok THEN binaryString
        ELSE Fail("Failed to decode base64 payload: InvalidCharacterError", 0)

base64ToArrayBuffer(base64) ==
  IF base64 = <<>> THEN Fail("Failed to decode base64 payload: Empty payload provided", 0)
  ELSE
    LET binaryString == atob(normalizedBase64(base64))
    IN  IF binaryString.ok THEN binaryString
        ELSE Fail("Failed to decode base64 payload: InvalidCharacterError", 0)

\* mutant: '-' and '_' are replaced the wrong way round
fixPayloadFormat_Swapped(payload) ==
  IF payload = <<>> THEN payload
  ELSE LET spaced == Replace(payload, Space, Plus)
       IN  Replace(Replace(spaced \o Padding(spaced), Minus, Slash), Underscore, Plus)

fixPayloadFormat(payload) ==
  IF payload = <<>> THEN payload
  ELSE LET spaced == Replace(payload, Space, Plus)
       IN  Replace(Replace(spaced \o Padding(spaced), Minus, Plus), Underscore, Slash)

(***************************************************************************)
(* DecryptionService: decrypt and encrypt                                  *)
(***************************************************************************)
\* the message handleDecryptionError puts in place of a sensitive one
GenericMessage == "Failed to process encrypted payload"

\* the messages that include 'decrypt' or 'key'
IncludesDecryptOrKey(message) ==
  message \in {"Invalid or missing decryption key",
               "Invalid JSON format in decrypted payload"}

\* the messages a browser gives the OperationError of crypto.subtle.decrypt
OperationErrorMessages ==
  {"", "The operation failed for an operation-specific reason"}

handleDecryptionError(thrown) ==
  IF IncludesDecryptOrKey(thrown.error)
  THEN [thrown EXCEPT !.error = GenericMessage,
                      !.cause = thrown.error]
  ELSE thrown

\* the body of one try of decrypt: decode, split, import, decrypt, parse
tryDecrypt(key, base64, operationError) ==
  LET encryptedData == base64ToArrayBuffer(base64)
  IN  IF ~encryptedData.ok THEN encryptedData
      ELSE IF Len(encryptedData.bytes) < IV_LENGTH + TAG_LENGTH + 1
      THEN Fail("Encrypted payload too short - possibly corrupted", 0)
      ELSE
        LET iv == SubSeq(encryptedData.bytes, 1, IV_LENGTH)
            ciphertext == SubSeq(encryptedData.bytes, IV_LENGTH + 1,
                                 Len(encryptedData.bytes))
            decryptedBuffer == subtleDecrypt(importKey(key), iv, ciphertext)
        IN  IF ~decryptedBuffer.ok THEN Fail(operationError, 1)
            ELSE [parseInstructionSet(decryptedBuffer.bytes) EXCEPT !.aead = 1]

\* mutant: the error of the first try is thrown without a second try
decrypt_NeverRetry(key, encryptedPayload, operationError) ==
  LET first == tryDecrypt(key, encryptedPayload, operationError)
      thrown ==
        IF encryptedPayload = <<>> THEN Fail("Invalid encrypted payload provided", 0)
        ELSE IF ~validateDecryptionKey(key)
        THEN Fail("Invalid or missing decryption key", 0)
        ELSE first
  IN  IF thrown.ok THEN thrown ELSE handleDecryptionError(thrown)

\* mutant: the second try runs whether or not the payload was changed
decrypt_RetryAlways(key, encryptedPayload, operationError) ==
  LET first == tryDecrypt(key, encryptedPayload, operationError)
      second == tryDecrypt(key, fixPayloadFormat(encryptedPayload), operationError)
      thrown ==
        IF encryptedPayload = <<>> THEN Fail("Invalid encrypted payload provided", 0)
        ELSE IF ~validateDecryptionKey(key)
        THEN Fail("Invalid or missing decryption key", 0)
        ELSE IF first.ok THEN first
        ELSE [second EXCEPT !.aead = @ + first.aead]
  IN  IF thrown.ok THEN thrown ELSE handleDecryptionError(thrown)

decrypt(key, encryptedPayload, operationError) ==
  LET first == tryDecrypt(key, encryptedPayload, operationError)
      fixedPayload == fixPayloadFormat(encryptedPayload)
      second == tryDecrypt(key, fixedPayload, operationError)
      thrown ==
        IF encryptedPayload = <<>> THEN Fail("Invalid encrypted payload provided", 0)
        ELSE IF ~validateDecryptionKey(key)
        THEN Fail("Invalid or missing decryption key", 0)
        ELSE IF first.ok THEN first
        ELSE IF fixedPayload # encryptedPayload
        THEN [second EXCEPT !.aead = @ + first.aead]
        ELSE first
  IN  IF thrown.ok THEN thrown ELSE handleDecryptionError(thrown)

\* encrypt(instructionSet) with the IV that crypto.getRandomValues gave
encrypt(key, object, iv) ==
  LET valid == validateInstructionSet(object)
      encryptedBuffer == subtleEncrypt(importKey(key), iv, stringify(object))
      base64 == btoa(iv \o encryptedBuffer)
  IN  IF ~valid.ok
      THEN [valid EXCEPT !.error = "Encryption failed", !.cause = valid.error]
      ELSE ReturnBytes(StripPad(Replace(Replace(base64, Plus, Minus), Slash, Underscore)))

\* setEncryptionKey(key): the key of the service afterwards
setEncryptionKey(current, key) ==
  IF key = <<>>
  THEN [Fail("Invalid encryption key provided", 0) EXCEPT !.bytes = current]
  ELSE ReturnBytes(key)

\* fixBase64Format(payload) of the enhancement script
fixBase64Format(payload) ==
  IF payload = <<>> THEN payload
  ELSE LET spaced == Replace(payload, Space, Plus)
       IN  Replace(Replace(spaced \o Padding(spaced), Minus, Plus), Underscore, Slash)

\* the end of the recovery attempt: its value is returned; its error is
\* logged and the first error is thrown again
recovered(error, recovery) ==
  IF recovery.ok THEN [recovery EXCEPT !.aead = @ + error.aead]
  ELSE [error EXCEPT !.aead = @ + recovery.aead]

\* the catch block of the replaced decrypt: after a 'Failed to process
\* encrypted payload' error, one more call of the original decrypt on the
\* fixed payload if fixing changed it
recover(key, encryptedPayload, operationError, error) ==
  LET fixedPayload == fixBase64Format(encryptedPayload)
  IN  IF /\ error.error = GenericMessage
         /\ encryptedPayload # <<>>
         /\ fixedPayload # encryptedPayload
      THEN recovered(error, decrypt(key, fixedPayload, operationError))
      ELSE error

\* the end of the first call of the original decrypt
settled(key, encryptedPayload, operationError, first) ==
  IF first.ok THEN first
  ELSE recover(key, encryptedPayload, operationError, first)

\* DecryptionService.prototype.decrypt as enhanceDecryptionService replaces it
enhancedDecrypt(key, encryptedPayload, operationError) ==
  settled(key, encryptedPayload, operationError,
          decrypt(key, encryptedPayload, operationError))

\* history: what the payload at hand was made of
NoGiven ==
  [object |-> NoObject, key |-> <<>>, iv |-> <<>>, plain |-> <<>>,
   form |-> "none", tampered |-> FALSE]
NoOutcome == [op |-> "none", res |-> Return(NoObject, 0)]

(***************************************************************************)
(* ParameterParser.  A parameter value is a sequence of character codes:   *)
(* the codes of the base64 alphabet above, '%' and one code for every      *)
(* other character.                                                        *)
(***************************************************************************)
PAYLOAD_PARAM_NAME == "payload"
MIN_PAYLOAD_LENGTH == 16
Percent == 68
OtherCharacter == 69
\* params.get('payload') of a URL without a payload parameter: null
NullParam == <<-1>>

\* the value of a hexadecimal digit, -1 for any other character
HexValue(c) ==
  IF c \in 52..61 THEN c - 52
  ELSE IF c \in 0..5 THEN c + 10
  ELSE IF c \in 26..31 THEN c - 16
  ELSE -1

\* the character of an ASCII code
CharacterOf(byte) ==
  IF byte \in 65..90 THEN byte - 65
  ELSE IF byte \in 97..122 THEN byte - 71
  ELSE IF byte \in 48..57 THEN byte + 4
  ELSE IF byte = 43 THEN Plus
  ELSE IF byte = 47 THEN Slash
  ELSE IF byte = 61 THEN Pad
  ELSE IF byte = 45 THEN Minus
  ELSE IF byte = 95 THEN Underscore
  ELSE IF byte = 32 THEN Space
  ELSE IF byte = 37 THEN Percent
  ELSE OtherCharacter

\* the byte of the escape sequence at the head of text, -1 when there is none
EscapedByte(text) ==
  IF Len(text) >= 3 /\ text[1] = Percent /\ HexValue(text[2]) >= 0 /\ HexValue(text[3]) >= 0
    THEN 16 * HexValue(text[2]) + HexValue(text[3])
  ELSE -1

\* the length in bytes of the UTF-8 sequence a lead byte starts, 0 for a byte
\* that starts none
SequenceLength(byte) ==
  IF byte < 128 THEN 1
  ELSE IF byte \in 194..223 THEN 2
  ELSE IF byte \in 224..239 THEN 3
  ELSE IF byte \in 240..244 THEN 4
  ELSE 0

RECURSIVE Continuations(_, _)
\* text starts with n escaped continuation bytes (0x80..0xBF)
Continuations(text, n) ==
  \/ n = 0
  \/ /\ EscapedByte(text) \in 128..191
     /\ Continuations(SubSeq(text, 4, Len(text)), n - 1)

RECURSIVE decodeURIComponent(_)
\* decodeURIComponent(text): the decoded text, or URIError for a '%' that
\* starts no escape sequence or a sequence that is no UTF-8
decodeURIComponent(text) ==
  IF text = <<>> THEN [ok |-> TRUE, text |-> <<>>]
  ELSE IF text[1] # Percent
    THEN LET rest == decodeURIComponent(Tail(text))
         IN  [rest EXCEPT !.text = <<text[1]>> \o @]
  ELSE
    LET byte == EscapedByte(text)
        n == IF byte < 0 THEN 0 ELSE SequenceLength(byte)
    IN  IF n = 0 \/ ~Continuations(SubSeq(text, 4, Len(text)), n - 1)
          THEN [ok |-> FALSE, text |-> <<>>]
        ELSE LET rest == decodeURIComponent(SubSeq(text, 3 * n + 1, Len(text)))
             IN  [rest EXCEPT !.text = <<IF n = 1 THEN CharacterOf(byte)
                                          ELSE OtherCharacter>> \o @]

\* the result object of parseAndValidatePayload
ParseResult(success, payload, error) ==
  [success |-> success, payload |-> payload, error |-> error]

\* extractEncryptedPayload(params), param = params.get('payload'): null for
\* a missing or empty parameter, else the parameter decoded once more
extractEncryptedPayload(param) ==
  IF param = NullParam \/ param = <<>> THEN [ok |-> TRUE, text |-> NullParam]
  ELSE decodeURIComponent(param)

\* /^[A-Za-z0-9+/=_-]+$/
Base64Pattern == 0..63 \cup {Pad, Underscore, Minus}

\* validatePayloadFormat(payload) of a string
validatePayloadFormat(payload) ==
  /\ payload # <<>>
  /\ Len(payload) >= MIN_PAYLOAD_LENGTH
  /\ \A i \in DOMAIN payload : payload[i] \in Base64Pattern
  /\ \E i \in DOMAIN payload : payload[i] \notin {Pad, Underscore, Minus}

\* parseAndValidatePayload(), param = params.get('payload')
parseAndValidatePayload(param) ==
  LET payload == extractEncryptedPayload(param)
  IN  IF ~payload.ok
        THEN ParseResult(FALSE, NullParam,
                         "Failed to extract encrypted payload from URL parameters")
      ELSE IF payload.text = NullParam \/ payload.text = <<>>
        THEN ParseResult(FALSE, NullParam, "No encrypted payload found in URL parameters")
      ELSE IF ~validatePayloadFormat(payload.text)
        THEN ParseResult(FALSE, payload.text, "Invalid payload format detected")
      ELSE ParseResult(TRUE, payload.text, "")

(***************************************************************************)
(* The page around the ClickHandler: its URL, the service worker, the      *)
(* error display and the timers of ErrorHandler and DisplayController.     *)
(***************************************************************************)
\* the keys of ErrorHandler.retryAttempts: `${context}_${errorType}`
RetryContexts ==
  {"flow_parameter_parsing", "flow_decryption", "flow_image_loading",
   "flow_click_handling", "image_loading"}
RetryKeys == RetryContexts \X {"image_loading", "network"}

\* the page as the browser has loaded it: search is
\* URLSearchParams.get('payload'), controller is
\* navigator.serviceWorker.controller; href is the URL assigned to
\* window.location.href; loads and results are history
NewPage(search, controller, loads) ==
  [search |-> search, controller |-> controller, loads |-> loads,
   currentPhase |-> "ready", pc |-> "parse",
   encryptedPayload |-> NullParam, instructionSet |-> NoObject,
   errorState |-> FALSE,
   retryAttempts |-> [k \in RetryKeys |-> 0],
   tasks |-> {},
   href |-> NullParam,
   results |-> <<>>]

\* the page of the specifications that load no App
NoPage == NewPage(NullParam, FALSE, 0)

(***************************************************************************)
(* ErrorHandler                                                            *)
(***************************************************************************)
maxRetryAttempts == 3
retryDelays == <<1000, 2000, 4000>>

ERROR_TYPES ==
  {"parameter_parsing", "decryption", "image_loading", "background_image_loading",
   "click_handling", "firebase", "network", "validation", "security"}

RECOVERABLE_ERRORS == {"image_loading", "background_image_loading", "firebase", "network"}

\* an Error: its message (a prefix and the message it wraps), the words of
\* classifyError its lower-cased message includes, and error.type
AnError(prefix, message, words, type) ==
  [prefix |-> prefix, message |-> message, words |-> words, type |-> type]

\* the metadata handed to handleError: metadata.url is set, metadata.errorType
Metadata(url, errorType) == [url |-> url, errorType |-> errorType]
NoMetadata == Metadata(FALSE, "")

\* classifyError(error, context)
classifyError(error, context) ==
  IF context \in ERROR_TYPES THEN context
  ELSE IF error.type \in {"cors", "format", "timeout"} THEN "image_loading"
  ELSE IF error.type = "network" THEN "network"
  ELSE IF error.words \cap {"network", "fetch", "timeout"} # {} THEN "network"
  ELSE IF error.words \cap {"decrypt", "key", "cipher"} # {} THEN "decryption"
  ELSE IF error.words \cap {"background-image", "background image", "image", "load"} # {}
    THEN "image_loading"
  ELSE IF error.words \cap {"parameter", "url"} # {} THEN "parameter_parsing"
  ELSE IF "firebase" \in error.words THEN "firebase"
  ELSE IF error.words \cap {"validation", "invalid"} # {} THEN "validation"
  ELSE "unknown"

\* shouldRetry(errorType, context, options), options = {}
shouldRetry(s, errorType, context) ==
  /\ errorType \in RECOVERABLE_ERRORS
  /\ s.app.retryAttempts[<<context, errorType>>] < maxRetryAttempts

\* generateUserFriendlyMessage(errorInfo)
generateUserFriendlyMessage(type, metadata) ==
  CASE type = "parameter_parsing" ->
         "Please access this page with a valid encrypted payload parameter."
    [] type = "decryption" ->
         "Unable to process the encrypted instructions. Please check the payload format."
    [] type \in {"image_loading", "background_image_loading"} ->
         (CASE metadata.errorType = "cors" ->
                 "Unable to load image from external domain. This may be due to cross-origin restrictions."
            [] metadata.errorType = "timeout" ->
                 "Image loading timed out. The server might be slow or unresponsive."
            [] metadata.errorType = "format" ->
                 "Invalid image format or corrupted image file."
            [] metadata.errorType = "network" ->
                 "Network error while loading image. Please check your internet connection."
            [] OTHER -> "Failed to load the image. Please try again later.")
    [] type = "network" ->
         "Network connection error. Please check your internet connection and try again."
    [] type = "firebase" ->
         "Monitoring services are temporarily unavailable, but the page will continue to function."
    [] type = "click_handling" ->
         "Click functionality is temporarily unavailable. Please try refreshing the page."
    [] type = "validation" ->
         "Invalid data format detected. Please verify the input parameters."
    [] type = "security" ->
         "Security validation failed. Please ensure you are using a valid encrypted payload."
    [] OTHER -> "An unexpected error occurred. Please try refreshing the page."

\* displayRetryMessage(attempt, maxAttempts): `Retrying... (${attempt}/${maxAttempts})`
RetryMessage(attempt) ==
  CASE attempt = 1 -> "Retrying... (1/3)"
    [] attempt = 2 -> "Retrying... (2/3)"
    [] OTHER -> "Retrying... (3/3)"

displayRetryMessage(s, attempt) == [s EXCEPT !.errorMessage = RetryMessage(attempt)]

\* displayErrorState(errorInfo, options)
displayErrorState(s, type, metadata) ==
  [s EXCEPT !.errorMessage = generateUserFriendlyMessage(type, metadata),
            !.app.errorState = TRUE]

\* hideErrorState()
hideErrorState(s) == [s EXCEPT !.app.errorState = FALSE]

\* a callback of the page that waits for its time: the rest of attemptRetry
\* ("retry"), the report of DisplayController ("report"), location.reload()
\* ("reload")
Task(kind, error, context, metadata, attempt) ==
  [kind |-> kind, at |-> 0, error |-> error, context |-> context,
   metadata |-> metadata, attempt |-> attempt]

\* setTimeout(callback, delay), also the one of this.delay(ms)
setTimeout(s, task, delay) ==
  [s EXCEPT !.app.tasks = @ \cup {[task EXCEPT !.at = s.now + delay]}]

NoError == AnError("", "", {}, "")

\* ErrorHandler.fixPayloadFormat(payload): the code of
\* DecryptionService.fixPayloadFormat, line by line
ErrorHandler_fixPayloadFormat(payload) == fixPayloadFormat(payload)

\* degradeDecryptionFailure()
degradeDecryptionFailure(s) ==
  LET payload == s.app.search
  IN  IF payload # NullParam /\ payload # <<>>
           /\ ErrorHandler_fixPayloadFormat(payload) # payload
        THEN [s EXCEPT !.app.href = ErrorHandler_fixPayloadFormat(payload)]
      ELSE IF s.app.controller
        THEN setTimeout(s, Task("reload", NoError, "", NoMetadata, 0), 300)
      ELSE [s EXCEPT !.errorMessage =
              "Unable to process the encrypted instructions. Please check the payload format."]

\* implementGracefulDegradation(errorInfo): the strategies for the other
\* types change styles of the image elements only
implementGracefulDegradation(s, type) ==
  IF type = "decryption" THEN degradeDecryptionFailure(s) ELSE s

\* handleNonRecoverableError(errorInfo, options)
handleNonRecoverableError(s, type, metadata) ==
  displayErrorState(implementGracefulDegradation(s, type), type, metadata)

\* attemptRetry(originalError, context, metadata, options), up to its
\* await this.delay(delay)
attemptRetry(s, error, context, metadata) ==
  LET retryKey == <<context, classifyError(error, context)>>
      currentAttempts == s.app.retryAttempts[retryKey]
      nextAttempt == currentAttempts + 1
      delay == retryDelays[(IF currentAttempts < 2 THEN currentAttempts ELSE 2) + 1]
  IN  setTimeout(
        displayRetryMessage([s EXCEPT !.app.retryAttempts[retryKey] = nextAttempt],
                            nextAttempt),
        Task("retry", error, context, metadata, nextAttempt), delay)

\* handleError(error, context, metadata, options)
handleError(s, error, context, metadata) ==
  LET errorType == classifyError(error, context)
  IN  IF shouldRetry(s, errorType, context)
        THEN attemptRetry(s, error, context, metadata)
      ELSE handleNonRecoverableError(s, errorType, metadata)

(***************************************************************************)
(* DisplayController.loadImage                                             *)
(***************************************************************************)
\* the ways an image load ends: loaded, onerror, or the preload timeout
LoadOutcomes == {"loaded", "error", "timeout"}

\* the Error preloadImage rejects with
PreloadError(ending) ==
  IF ending = "timeout"
    THEN AnError("", "Image preload timeout: <url>", {"image", "load", "timeout"},
                 "timeout")
  ELSE AnError("", "Failed to preload image from URL: <url>", {"image", "load", "url"},
               "unknown")

\* showErrorState(message, options) of DisplayController
showErrorState(s, message) ==
  [s EXCEPT !.errorMessage = message, !.app.errorState = TRUE]

\* handleImageLoadError(error): the message for error.type, and the report
\* to window.errorHandler in a setTimeout of 0 ms
handleImageLoadError(s, error) ==
  setTimeout(
    showErrorState(s, IF error.type = "timeout"
                        THEN "Image loading timed out. The server might be slow or unresponsive."
                      ELSE "Failed to load image. Please try again later."),
    Task("report", error, "image_loading", Metadata(TRUE, error.type), 0), 0)

\* the result of an awaited call: the state it leaves, and the Error thrown
Done(s) == [state |-> s, ok |-> TRUE, error |-> NoError]
Thrown(s, error) == [state |-> s, ok |-> FALSE, error |-> error]

\* loadImage(imageUrl), imageUrl a JavaScript value, ending as ending says
loadImage(s, imageUrl, ending) ==
  IF ~Truthy(imageUrl) \/ imageUrl.t # "string"
    THEN Thrown(s, AnError("", "Invalid image URL provided",
                           {"invalid", "image", "url"}, ""))
  ELSE IF ending = "loaded" THEN Done(hideErrorState(s))
  ELSE Thrown(handleImageLoadError(hideErrorState(s), PreloadError(ending)),
              PreloadError(ending))

(***************************************************************************)
(* ErrorHandler: the retry after its delay                                 *)
(***************************************************************************)
\* retryBackgroundImageLoading(metadata, options): window.instructionSet is
\* never assigned, so the URL is metadata.url
retryBackgroundImageLoading(s, metadata, ending) ==
  IF ~metadata.url THEN Thrown(s, NoError)
  ELSE loadImage(s, Str(ImageUrl), ending)

\* executeRetry(context, metadata, options); the firebase and network
\* retries succeed or fail as ending says
executeRetry(s, context, metadata, ending) ==
  IF context \in {"image_loading", "background_image_loading"}
    THEN retryBackgroundImageLoading(s, metadata, ending)
  ELSE IF context \in {"firebase", "network"}
    THEN (IF ending = "loaded" THEN Done(s) ELSE Thrown(s, NoError))
  ELSE Thrown(s, NoError)

\* attemptRetry after its delay
resumeAttemptRetry(s, task, ending) ==
  LET errorType == classifyError(task.error, task.context)
      retryKey == <<task.context, errorType>>
      retried == executeRetry(s, task.context, task.metadata, ending)
      t == retried.state
  IN  IF retried.ok
        THEN hideErrorState([t EXCEPT !.app.retryAttempts[retryKey] = 0])
      ELSE IF task.attempt >= maxRetryAttempts
        THEN handleNonRecoverableError([t EXCEPT !.app.retryAttempts[retryKey] = 0],
                                       errorType, task.metadata)
      ELSE t

(***************************************************************************)
(* App: the application flow                                               *)
(***************************************************************************)
\* the instruction set as ClickHandler reads the object decrypt returned
AsInstructionSet(value) ==
  [nul |-> FALSE,
   image_url |-> IF value.image_url.t = "string" THEN value.image_url.s ELSE Null,
   click_url |-> IF value.click_url.t = "string" THEN value.click_url.s ELSE Null,
   deeplink_url |-> IF value.deeplink_url.t = "string" THEN value.deeplink_url.s ELSE Null,
   auto_click |-> Truthy(value.auto_click),
   deeplink_priority |-> Truthy(value.deeplink_priority),
   auto_click_delay |-> IF value.auto_click_delay.t = "number"
                          THEN value.auto_click_delay.n ELSE NullDelay]

\* updatePhase(phase)
updatePhase(s, phase) == [s EXCEPT !.app.currentPhase = phase]

\* history: a phase of the flow has ended
Ended(s, phase, success) ==
  [s EXCEPT !.app.results = Append(@, [phase |-> phase, success |-> success])]

\* handleFlowError(phase, errorMessage) with the ErrorHandler in place;
\* startApplicationFlow returns after it
handleFlowError(s, phase, context, error) ==
  handleError([Ended(s, phase, FALSE) EXCEPT !.app.pc = "returned"],
              error, context, NoMetadata)

\* the Error of a failed parseUrlParameters, from the error of the parser
ParameterError(error) ==
  IF error = "No encrypted payload found in URL parameters"
    THEN AnError("", "No encrypted payload provided. Please access this page with a valid encrypted payload parameter.",
                 {"load", "parameter"}, "")
  ELSE IF error = "Invalid payload format detected"
    THEN AnError("", error, {"load", "invalid"}, "")
  ELSE AnError("", error, {"load", "url", "parameter"}, "")

\* phase 1 of startApplicationFlow: parseUrlParameters()
parseUrlParameters(s) ==
  LET result == parseAndValidatePayload(s.app.search)
      s1 == updatePhase(s, "parsing_parameters")
  IN  IF result.success
        THEN [Ended(s1, "parsing_parameters", TRUE)
                EXCEPT !.app.encryptedPayload = result.payload, !.app.pc = "decrypt"]
      ELSE handleFlowError(s1, "parsing_parameters", "flow_parameter_parsing",
                           ParameterError(result.error))

\* phase 2: decryptInstructionSet(encryptedPayload); no message of decrypt
\* includes 'network', 'fetch' or 'timeout'
decryptInstructionSet(s, decrypted) ==
  LET s1 == updatePhase(s, "decrypting_payload")
  IN  IF decrypted.ok
        THEN [Ended(s1, "decrypting_payload", TRUE)
                EXCEPT !.app.instructionSet = decrypted.value, !.app.pc = "image"]
      ELSE handleFlowError(s1, "decrypting_payload", "flow_decryption",
                           AnError("Failed to decrypt instruction payload: ",
                                   decrypted.error, {"decrypt", "load"}, ""))

\* mutant: the flow goes on after a failed image load
loadAndDisplayImage_GoOn(s, ending) ==
  LET loaded == loadImage(updatePhase(s, "loading_image"),
                          s.app.instructionSet.image_url, ending)
  IN  [Ended(loaded.state, "loading_image", loaded.ok) EXCEPT !.app.pc = "clicks"]

\* phase 3: loadAndDisplayImage(instructionSet)
loadAndDisplayImage(s, ending) ==
  LET loaded == loadImage(updatePhase(s, "loading_image"),
                          s.app.instructionSet.image_url, ending)
  IN  IF loaded.ok
        THEN [Ended(loaded.state, "loading_image", TRUE) EXCEPT !.app.pc = "clicks"]
      ELSE handleFlowError(loaded.state, "loading_image", "flow_image_loading",
                           AnError("Failed to load image: ", loaded.error.message,
                                   {"load", "image"} \cup loaded.error.words, ""))

\* phase 4 and the end of the flow: setupClickHandling(instructionSet)
setupClickHandling(s) ==
  LET s1 == initialize(updatePhase(s, "setting_up_interactions"),
                       AsInstructionSet(s.app.instructionSet))
  IN  updatePhase([Ended(s1, "setting_up_interactions", TRUE) EXCEPT !.app.pc = "returned"],
                  "ready_for_interaction")

(***************************************************************************)
(* The page: what the browser and the application do to the ClickHandler   *)
(***************************************************************************)
\* history: a step that assigns this.instructionSet marks the suspended routings
History(s, t) ==
  IF t.instructionSet # s.instructionSet THEN MarkReplaced(t) ELSE t

\* the beginning of a step of the browser
Begin(op) == [Cur EXCEPT !.obs.op = op, !.obs.wasSetup = clickListenersSetup]

\* the beginning of a call of the application
Call(op) == [Begin(op) EXCEPT !.calls = @ + 1]

Step(s, t, maxAttempts, maxCalls) ==
  /\ Len(t.attempts) <= maxAttempts
  /\ t.calls <= maxCalls
  /\ Become(History(s, t))

\* clickHandler.initialize(I), I drawn from Sets
InitializeWith(Sets, maxA, maxC) ==
  \E I \in Sets :
    LET s == Call("initialize") IN Step(s, initialize(s, I), maxA, maxC)

\* clickHandler.destroy()
DestroyWithin(maxA, maxC) ==
  LET s == Call("destroy") IN Step(s, destroy(s), maxA, maxC)

\* clickHandler.cancelAutoClick()
CancelAutoClickWithin(maxA, maxC) ==
  LET s == Call("cancelAutoClick") IN Step(s, cancelAutoClick(s), maxA, maxC)

\* clickHandler.scheduleAutoClick(), called again on an initialized handler
ScheduleAutoClickWithin(maxA, maxC) ==
  /\ ~instructionSet.nul
  /\ LET s == Call("scheduleAutoClick") IN Step(s, scheduleAutoClick(s), maxA, maxC)

\* an event of one of Types, without coordinates, reaches document.body
BodyEventOf(Types, maxA, maxC) ==
  \E e \in Types :
    /\ listeners[e] # {}
    /\ LET s == Begin(e) IN Step(s, dispatchEvent(s, e, <<0, 0>>), maxA, maxC)

\* a touchstart reaches document.body
TouchStartWithin(maxA, maxC) ==
  \E p \in StartPoints :
    /\ listeners["touchstart"] # {}
    /\ LET s == Begin("touchstart")
       IN  Step(s, dispatchEvent(s, "touchstart", p), maxA, maxC)

\* a touchend reaches document.body
TouchEndWithin(maxA, maxC) ==
  \E p \in EndPoints :
    /\ listeners["touchend"] # {}
    /\ LET s == [Begin("touchend") EXCEPT !.obs.point = p]
       IN  Step(s, dispatchEvent(s, "touchend", p), maxA, maxC)

\* the auto-click timer fires: its callback calls processClickAction('auto_click')
AutoClickFireWithin(maxA, maxC) ==
  \E t \in timers :
    /\ now = t.deadline
    /\ LET s == [Begin("autoClick") EXCEPT !.timers = @ \ {t}, !.obs.fired = {t}]
       IN  Step(s, processClickAction(s), maxA, maxC)

\* the timeout of a deeplink attempt fires
DeeplinkTimeoutWithin(maxA, maxC) ==
  \E i \in DOMAIN attempts :
    /\ attempts[i].timeout
    /\ now = attempts[i].start + DEEPLINK_TIMEOUT
    /\ LET s == Begin("deeplinkTimeout") IN Step(s, deeplinkTimeout(s, i), maxA, maxC)

RECURSIVE RunVisibilityHandlers(_, _)
\* the visibilitychange listeners run in the order they were added
RunVisibilityHandlers(s, i) ==
  IF i > Len(s.attempts) THEN s
  ELSE RunVisibilityHandlers(
         IF s.attempts[i].vis THEN visibilityHandler(s, i) ELSE s, i + 1)

RECURSIVE RunBlurHandlers(_, _)
\* the blur listeners run in the order they were added
RunBlurHandlers(s, i) ==
  IF i > Len(s.attempts) THEN s
  ELSE RunBlurHandlers(
         IF s.attempts[i].blur THEN blurHandler(s, i) ELSE s, i + 1)

\* the page is hidden or shown again: a visibilitychange event on document
VisibilityChangeWithin(maxA, maxC) ==
  /\ \E i \in DOMAIN attempts : attempts[i].vis
  /\ LET s == [Begin("visibilitychange") EXCEPT !.hidden = ~@]
     IN  Step(s, RunVisibilityHandlers(s, 1), maxA, maxC)

\* the window loses focus: a blur event on window
WindowBlurWithin(maxA, maxC) ==
  /\ \E i \in DOMAIN attempts : attempts[i].blur
  /\ LET s == Begin("blur") IN Step(s, RunBlurHandlers(s, 1), maxA, maxC)

\* the deadlines of the pending timers
Deadlines ==
  {t.deadline : t \in timers} \cup
  {attempts[i].start + DEEPLINK_TIMEOUT : i \in {j \in DOMAIN attempts : attempts[j].timeout}}

\* time passes, up to the next point of interest and never past a deadline
TickTo(Points, maxA, maxC) ==
  \E t \in Points \cup Deadlines :
    /\ t > now
    /\ \A d \in Deadlines : t <= d
    /\ LET s == [Begin("tick") EXCEPT !.now = t] IN Step(s, s, maxA, maxC)

InitOf(PointerEvent, Texts, Pages) ==
  /\ instructionSet = NoInstructionSet
  /\ clickListenersSetup = FALSE
  /\ autoClickTimer = NullTimer
  /\ isProcessingClick = FALSE
  /\ interactionState = NoInteractionState
  /\ listeners = [e \in EventTypes |-> {}]
  /\ nextBind = 1
  /\ timers = {}
  /\ nextTimer = 1
  /\ attempts = <<>>
  /\ location = "https://landing.test/?payload=x"
  /\ errorMessage = ""
  /\ hidden = FALSE
  /\ hasPointerEvent \in PointerEvent
  /\ now = 0
  /\ cancelled = {}
  /\ calls = 0
  /\ obs = NoObs
  /\ app \in Pages
  /\ encryptionKey = DefaultKey
  /\ payloadParam \in Texts
  /\ given = NoGiven
  /\ outcome = NoOutcome

(***************************************************************************)
(* Spec: the routing decision.  The user clicks, the auto-click timer      *)
(* fires, deeplink attempts resolve, the application initializes and       *)
(* destroys the handler; every combination of the routing fields is tried. *)
(***************************************************************************)
InitWith(PointerEvent) == InitOf(PointerEvent, {<<>>}, {NoPage})

Init == InitWith({TRUE})
Initialize == InitializeWith(RouteInstructionSets, MaxAttempts, MaxCalls)
Destroy == DestroyWithin(MaxAttempts, MaxCalls)
Click == BodyEventOf({"click"}, MaxAttempts, MaxCalls)
AutoClickFire == AutoClickFireWithin(MaxAttempts, MaxCalls)
DeeplinkTimeout == DeeplinkTimeoutWithin(MaxAttempts, MaxCalls)
VisibilityChange == VisibilityChangeWithin(MaxAttempts, MaxCalls)
WindowBlur == WindowBlurWithin(MaxAttempts, MaxCalls)
Tick == TickTo(RouteTimePoints, MaxAttempts, MaxCalls)

Next ==
  \/ Initialize
  \/ Destroy
  \/ Click
  \/ AutoClickFire
  \/ DeeplinkTimeout
  \/ VisibilityChange
  \/ WindowBlur
  \/ Tick

Spec == Init /\ [][Next]_vars

(***************************************************************************)
(* SpecLife: the life cycle and the auto-click timer.  The application     *)
(* initializes, destroys, cancels and reschedules; the instruction sets    *)
(* route directly to click_url.                                            *)
(***************************************************************************)
LifeInit == InitWith(BOOLEAN)
LifeInitialize == InitializeWith(LifeInstructionSets, 0, MaxLifeCalls)
LifeDestroy == DestroyWithin(0, MaxLifeCalls)
LifeCancelAutoClick == CancelAutoClickWithin(0, MaxLifeCalls)
LifeScheduleAutoClick == ScheduleAutoClickWithin(0, MaxLifeCalls)
LifeEvent == BodyEventOf(EventTypes \ {"touchstart", "touchend"}, 0, MaxLifeCalls)
LifeAutoClickFire == AutoClickFireWithin(0, MaxLifeCalls)
LifeTick == TickTo(LifeTimePoints, 0, MaxLifeCalls)

LifeNext ==
  \/ LifeInitialize
  \/ LifeDestroy
  \/ LifeCancelAutoClick
  \/ LifeScheduleAutoClick
  \/ LifeEvent
  \/ LifeAutoClickFire
  \/ LifeTick

SpecLife == LifeInit /\ [][LifeNext]_vars

(***************************************************************************)
(* SpecGesture: mouse, touch and pointer events, with a routing that may   *)
(* be suspended on a deeplink attempt.                                     *)
(***************************************************************************)
GestureInit == InitWith({TRUE})
GestureInitialize ==
  InitializeWith(GestureInstructionSets, MaxGestureAttempts, MaxGestureCalls)
GestureDestroy == DestroyWithin(MaxGestureAttempts, MaxGestureCalls)
GestureEvent ==
  BodyEventOf(EventTypes \ {"touchstart", "touchend"},
              MaxGestureAttempts, MaxGestureCalls)
GestureTouchStart == TouchStartWithin(MaxGestureAttempts, MaxGestureCalls)
GestureTouchEnd == TouchEndWithin(MaxGestureAttempts, MaxGestureCalls)
GestureDeeplinkTimeout == DeeplinkTimeoutWithin(MaxGestureAttempts, MaxGestureCalls)
GestureTick == TickTo(GestureTimePoints, MaxGestureAttempts, MaxGestureCalls)

GestureNext ==
  \/ GestureInitialize
  \/ GestureDestroy
  \/ GestureEvent
  \/ GestureTouchStart
  \/ GestureTouchEnd
  \/ GestureDeeplinkTimeout
  \/ GestureTick

SpecGesture == GestureInit /\ [][GestureNext]_vars

(***************************************************************************)
(* SpecPage: clicks, pointer and touch gestures together with the          *)
(* auto-click timer, the deeplink timeouts and the life cycle.             *)
(***************************************************************************)
PageInit == InitWith({TRUE})
PageInitialize == InitializeWith(PageInstructionSets, MaxPageAttempts, MaxPageCalls)
PageDestroy == DestroyWithin(MaxPageAttempts, MaxPageCalls)
PageEvent ==
  BodyEventOf({"click", "pointerdown", "pointerup"}, MaxPageAttempts, MaxPageCalls)
PageTouchStart == TouchStartWithin(MaxPageAttempts, MaxPageCalls)
PageTouchEnd == TouchEndWithin(MaxPageAttempts, MaxPageCalls)
PageAutoClickFire == AutoClickFireWithin(MaxPageAttempts, MaxPageCalls)
PageDeeplinkTimeout == DeeplinkTimeoutWithin(MaxPageAttempts, MaxPageCalls)
PageTick == TickTo(RouteTimePoints, MaxPageAttempts, MaxPageCalls)

PageNext ==
  \/ PageInitialize
  \/ PageDestroy
  \/ PageEvent
  \/ PageTouchStart
  \/ PageTouchEnd
  \/ PageAutoClickFire
  \/ PageDeeplinkTimeout
  \/ PageTick

SpecPage == PageInit /\ [][PageNext]_vars

(***************************************************************************)
(* SpecError: routings that fail.  The instruction set comes from the      *)
(* application as it is, so its click_url may be no URL; the handler may   *)
(* be destroyed while a routing is suspended or before an event arrives.   *)
(***************************************************************************)
ErrorInit == InitWith({TRUE})
ErrorInitialize == InitializeWith(ErrorInstructionSets, MaxErrorAttempts, MaxErrorCalls)
ErrorDestroy == DestroyWithin(MaxErrorAttempts, MaxErrorCalls)
ErrorEvent == BodyEventOf({"click", "mousedown"}, MaxErrorAttempts, MaxErrorCalls)
ErrorDeeplinkTimeout == DeeplinkTimeoutWithin(MaxErrorAttempts, MaxErrorCalls)
ErrorVisibilityChange == VisibilityChangeWithin(MaxErrorAttempts, MaxErrorCalls)
ErrorTick == TickTo(RouteTimePoints, MaxErrorAttempts, MaxErrorCalls)

ErrorNext ==
  \/ ErrorInitialize
  \/ ErrorDestroy
  \/ ErrorEvent
  \/ ErrorDeeplinkTimeout
  \/ ErrorVisibilityChange
  \/ ErrorTick

SpecError == ErrorInit /\ [][ErrorNext]_vars

(***************************************************************************)
(* SpecAttempt: deeplink attempts and the signals that resolve them: the   *)
(* timeout, visibilitychange events and blur events, early and late.       *)
(***************************************************************************)
AttemptInit == InitWith({TRUE})
AttemptInitialize == InitializeWith(AttemptInstructionSets, MaxOpenAttempts, MaxOpenCalls)
AttemptClick == BodyEventOf({"click"}, MaxOpenAttempts, MaxOpenCalls)
AttemptTimeout == DeeplinkTimeoutWithin(MaxOpenAttempts, MaxOpenCalls)
AttemptVisibilityChange == VisibilityChangeWithin(MaxOpenAttempts, MaxOpenCalls)
AttemptWindowBlur == WindowBlurWithin(MaxOpenAttempts, MaxOpenCalls)
AttemptTick == TickTo(AttemptTimePoints, MaxOpenAttempts, MaxOpenCalls)

AttemptNext ==
  \/ AttemptInitialize
  \/ AttemptClick
  \/ AttemptTimeout
  \/ AttemptVisibilityChange
  \/ AttemptWindowBlur
  \/ AttemptTick

SpecAttempt == AttemptInit /\ [][AttemptNext]_vars

(***************************************************************************)
(* SpecService: the DecryptionService.  The application sets the key,      *)
(* encrypts instruction sets and decrypts the payload it was given.        *)
(***************************************************************************)
\* the IVs crypto.getRandomValues gives: their base64 text has no '+' or '/',
\* or has both
IVs ==
  {[i \in 1..IV_LENGTH |-> 0],
   <<251, 255, 191, 251, 255, 191, 251, 255, 191, 251, 255, 191>>}

\* the instruction sets of the InstructionSet typedef
InstructionSets ==
  {Object(Str(ImageUrl), click, deeplink, Bool(auto), Bool(priority), delay) :
     click \in {JNull, Str(ClickUrl)}, deeplink \in {JNull, Str(DeeplinkUrl)},
     auto \in BOOLEAN, priority \in BOOLEAN, delay \in {JNull, Num(5000)}}

\* service.setEncryptionKey(key)
SetEncryptionKey ==
  \E key \in Keys \cup {<<>>} :
    LET result == setEncryptionKey(encryptionKey, key)
    IN  /\ encryptionKey' = result.bytes
        /\ outcome' = [op |-> "setEncryptionKey", res |-> result]
        /\ UNCHANGED <<payloadParam, given, clickVars>>

\* service.encrypt(object)
Encrypt ==
  \E object \in InstructionSets, iv \in IVs :
    LET result == encrypt(encryptionKey, object, iv)
    IN  /\ given' = [object |-> object, key |-> encryptionKey, iv |-> iv,
                     plain |-> stringify(object), form |-> "urlsafe",
                     tampered |-> FALSE]
        /\ payloadParam' = result.bytes
        /\ outcome' = [op |-> "encrypt", res |-> result]
        /\ UNCHANGED <<encryptionKey, clickVars>>

\* service.decrypt(payload)
Decrypt ==
  \E operationError \in OperationErrorMessages :
    /\ payloadParam # <<>>
    /\ outcome' = [op |-> "decrypt",
                   res |-> decrypt(encryptionKey, payloadParam, operationError)]
    /\ UNCHANGED <<encryptionKey, payloadParam, given, clickVars>>

ServiceInit == InitWith({TRUE})

ServiceNext ==
  \/ SetEncryptionKey
  \/ Encrypt
  \/ Decrypt

SpecService == ServiceInit /\ [][ServiceNext]_vars

(***************************************************************************)
(* SpecDecrypt: decrypt on the payloads a URL may carry.  The payload is   *)
(* an envelope in one of three texts (URL-safe without padding as encrypt  *)
(* writes it, standard base64, standard base64 whose '+' arrived as        *)
(* spaces), intact or with its last byte changed; the key of the service   *)
(* may differ from the key of the sender.                                  *)
(***************************************************************************)
\* an instruction set, and an object that validation rejects
ValidObject ==
  Object(Str(ImageUrl), Str(ClickUrl), Str(DeeplinkUrl), Bool(TRUE), Bool(FALSE),
         Num(1000))
NoClickObject ==
  Object(Str(ImageUrl), Undefined, Str(DeeplinkUrl), Bool(TRUE), Bool(FALSE),
         Num(1000))

\* the plaintexts of the sender: JSON of the two objects, one byte that is
\* no JSON (an envelope of 29 bytes), and nothing (an envelope of 28 bytes)
Plaintexts == {stringify(ValidObject), stringify(NoClickObject), <<1>>, <<>>}

Forms == {"urlsafe", "standard", "spaced"}

\* the IV of the envelopes: its base64 text is '+/+/...'
EnvelopeIV == <<251, 255, 191, 251, 255, 191, 251, 255, 191, 251, 255, 191>>

\* 'test', the bytes of the payload 'dGVzdA=='
TestBytes == <<116, 101, 115, 116>>

\* IV || ciphertext || tag as the sender builds it; tampering changes the
\* last byte
Envelope(plain, key, iv, tampered) ==
  LET bytes == iv \o subtleEncrypt(importKey(key), iv, plain)
  IN  IF tampered
      THEN [bytes EXCEPT ![Len(bytes)] = (@ + 1) % 256]
      ELSE bytes

\* the text of an envelope in the URL
PayloadText(bytes, form) ==
  LET standard == btoa(bytes)
  IN  CASE form = "standard" -> standard
        [] form = "spaced" -> Replace(standard, Plus, Space)
        [] OTHER -> StripPad(Replace(Replace(standard, Plus, Minus), Slash, Underscore))

\* what decrypt is called with: no payload, 'dGVzdA==' and 'dGVzdA', or the
\* text of an envelope
Payloads ==
  {[given |-> NoGiven, text |-> <<>>]} \cup
  {[given |-> [NoGiven EXCEPT !.form = form], text |-> PayloadText(TestBytes, form)] :
     form \in {"standard", "urlsafe"}} \cup
  {[given |-> [object |-> NoObject, key |-> DefaultKey, iv |-> EnvelopeIV,
               plain |-> plain, form |-> form, tampered |-> tampered],
    text |-> PayloadText(Envelope(plain, DefaultKey, EnvelopeIV, tampered), form)] :
     plain \in Plaintexts, form \in Forms, tampered \in BOOLEAN}

\* service.encryptionKey = key, as the tests assign it: no key, or 'short'
AssignEncryptionKey ==
  \E key \in {<<>>, ShortKey} :
    /\ encryptionKey' = key
    /\ outcome' = [op |-> "assignKey", res |-> ReturnBytes(key)]
    /\ UNCHANGED <<payloadParam, given, clickVars>>

\* service.decrypt(payload) of decryption-service.js
DecryptPayload ==
  \E p \in Payloads, operationError \in OperationErrorMessages :
    /\ payloadParam' = p.text
    /\ given' = p.given
    /\ outcome' = [op |-> "decrypt",
                   res |-> decrypt(encryptionKey, p.text, operationError)]
    /\ UNCHANGED <<encryptionKey, clickVars>>

\* service.decrypt(payload) once the enhancement script has replaced it
EnhancedDecryptPayload ==
  \E p \in Payloads, operationError \in OperationErrorMessages :
    /\ payloadParam' = p.text
    /\ given' = p.given
    /\ outcome' = [op |-> "enhancedDecrypt",
                   res |-> enhancedDecrypt(encryptionKey, p.text, operationError)]
    /\ UNCHANGED <<encryptionKey, clickVars>>

DecryptInit == InitWith({TRUE})

DecryptNext ==
  \/ SetEncryptionKey
  \/ AssignEncryptionKey
  \/ DecryptPayload
  \/ EnhancedDecryptPayload

SpecDecrypt == DecryptInit /\ [][DecryptNext]_vars

(***************************************************************************)
(* SpecNormalize: the two normalizations of a payload text.  The text is   *)
(* any string of a few characters, or one of the payloads of SpecDecrypt.  *)
(***************************************************************************)
\* the characters of a payload text: 'A', '+', '/', '-', '_', ' ' and '='
TextCharacters == {0, Plus, Slash, Minus, Underscore, Space, Pad}

RECURSIVE TextsOfLength(_)
TextsOfLength(n) ==
  IF n = 0 THEN {<<>>}
  ELSE {Append(text, c) : text \in TextsOfLength(n - 1), c \in TextCharacters}

PayloadTexts ==
  UNION {TextsOfLength(n) : n \in 0..MaxTextLength} \cup {p.text : p \in Payloads}

\* the first try of decrypt decodes the payload
DecodePayload ==
  /\ outcome' = [op |-> "decode", res |-> base64ToArrayBuffer(payloadParam)]
  /\ UNCHANGED <<encryptionKey, payloadParam, given, clickVars>>

\* the second try of decrypt decodes the fixed payload
DecodeFixedPayload ==
  /\ outcome.op = "decode"
  /\ outcome' = [op |-> "decodeFixed",
                 res |-> base64ToArrayBuffer(fixPayloadFormat(payloadParam))]
  /\ UNCHANGED <<encryptionKey, payloadParam, given, clickVars>>

NormalizeInit == InitOf({TRUE}, PayloadTexts, {NoPage})

NormalizeNext ==
  \/ DecodePayload
  \/ DecodeFixedPayload

SpecNormalize == NormalizeInit /\ [][NormalizeNext]_vars

(***************************************************************************)
(* SpecParse: parseAndValidatePayload on the values of the payload         *)
(* parameter: absent, or a few characters followed by a run of one         *)
(* character that brings the length to around MIN_PAYLOAD_LENGTH.          *)
(***************************************************************************)
\* 'A', '4', '+', '%', '=', '-', ' ' and '@'
ParamCharacters == {0, 56, Plus, Percent, Pad, Minus, Space, OtherCharacter}

RECURSIVE ParamHeads(_)
ParamHeads(n) ==
  IF n = 0 THEN {<<>>}
  ELSE ParamHeads(n - 1) \cup
       {Append(text, c) : text \in ParamHeads(n - 1), c \in ParamCharacters}

Run(c, n) == [i \in 1..n |-> c]

ParamValues ==
  {NullParam} \cup
  {head \o Run(0, n) : head \in ParamHeads(MaxHeadLength), n \in {0} \cup 12..16} \cup
  {head \o Run(Minus, n) : head \in ParamHeads(MaxHeadLength), n \in {13, 16}}

ParseAndValidatePayload ==
  /\ outcome.op = "none"
  /\ outcome' = [op |-> "parseAndValidatePayload",
                 res |-> parseAndValidatePayload(payloadParam)]
  /\ UNCHANGED <<encryptionKey, payloadParam, given, clickVars>>

ParseInit == InitOf({TRUE}, ParamValues, {NoPage})

ParseNext == ParseAndValidatePayload

SpecParse == ParseInit /\ [][ParseNext]_vars

(***************************************************************************)
(* Properties of the ParameterParser (SpecParse)                           *)
(***************************************************************************)
\* the payload parameter is present and not empty
Present == payloadParam # NullParam /\ payloadParam # <<>>

\* the payload parameter is as the claim requires it
WellFormedParam ==
  /\ Present
  /\ Len(payloadParam) >= 16
  /\ \A i \in DOMAIN payloadParam : payloadParam[i] \in 0..63 \cup {Pad, Underscore, Minus}
  /\ \E i \in DOMAIN payloadParam : payloadParam[i] \notin {Pad, Underscore, Minus}

C28_RetryDecodesTheSame ==
  /\ normalizedBase64(fixPayloadFormat(payloadParam)) = normalizedBase64(payloadParam)
  /\ normalizedBase64(normalizedBase64(payloadParam)) = normalizedBase64(payloadParam)
  /\ outcome.op = "decodeFixed" => outcome.res = base64ToArrayBuffer(payloadParam)

\* the retry decoded an unpadded text with a space and a '-' that
\* fixPayloadFormat had changed
C28_Witness ==
  /\ outcome.op = "decodeFixed" /\ outcome.res.ok
  /\ Len(payloadParam) % 4 # 0
  /\ \E i \in DOMAIN payloadParam : payloadParam[i] = Space
  /\ \E i \in DOMAIN payloadParam : payloadParam[i] = Minus
  /\ fixPayloadFormat(payloadParam) # payloadParam

(***************************************************************************)
(* SpecValidate: validateInstructionSet on raw objects, and decrypt of     *)
(* the envelopes a sender may build from raw objects                       *)
(***************************************************************************)
\* auto_click and deeplink_priority of a raw object: left out, a boolean, or
\* other values that Boolean() converts
RawFlags == {<<Undefined, Undefined>>, <<Num(1), Bool(FALSE)>>}

\* the raw objects validateInstructionSet is called with
RawObjects ==
  {Object(image, click, deeplink, flags[1], flags[2], delay) :
     image \in {Undefined, Str(""), Str(ImageUrl), Str(NotAUrl)},
     click \in {Undefined, Str(""), Num(5), Str(ClickUrl), Str(NotAUrl)},
     deeplink \in {Undefined, Str(DeeplinkUrl), Num(5)},
     flags \in RawFlags,
     delay \in {Undefined, JNull, Num(1000), Num(-100), NaN, Str("abc")}}

\* the raw objects whose JSON text a sender encrypts
SentObjects ==
  {Object(image, click, Undefined, Undefined, Undefined, delay) :
     image \in {Undefined, Str(ImageUrl), Str(NotAUrl)},
     click \in {Undefined, Str(ClickUrl), Str(NotAUrl)},
     delay \in {Undefined, JNull, Num(1000)}}

\* service.validateInstructionSet(raw)
Validate ==
  \E raw \in RawObjects :
    /\ payloadParam' = <<>>
    /\ given' = [NoGiven EXCEPT !.object = raw]
    /\ outcome' = [op |-> "validate", res |-> validateInstructionSet(raw)]
    /\ UNCHANGED <<encryptionKey, clickVars>>

\* service.decrypt(payload) of the envelope of a raw object
DecryptSent ==
  \E raw \in SentObjects, operationError \in OperationErrorMessages :
    LET plain == stringify(raw)
        text == PayloadText(Envelope(plain, DefaultKey, EnvelopeIV, FALSE), "urlsafe")
    IN  /\ payloadParam' = text
        /\ given' = [object |-> raw, key |-> DefaultKey, iv |-> EnvelopeIV,
                     plain |-> plain, form |-> "urlsafe", tampered |-> FALSE]
        /\ outcome' = [op |-> "decrypt",
                       res |-> decrypt(encryptionKey, text, operationError)]
        /\ UNCHANGED <<encryptionKey, clickVars>>

ValidateInit == InitWith({TRUE})

ValidateNext ==
  \/ Validate
  \/ DecryptSent

SpecValidate == ValidateInit /\ [][ValidateNext]_vars

(***************************************************************************)
(* Properties of validateInstructionSet (SpecValidate)                     *)
(***************************************************************************)
\* the raw object that validation was given: the argument of
\* validateInstructionSet, or what JSON.parse read from the decrypted text
Raw ==
  IF outcome.op = "validate" THEN given.object ELSE parse(given.plain).value

\* validation ran on Raw
Validated == outcome.op \in {"validate", "decrypt"}

C19_ImageUrlRequired ==
  outcome.op = "validate" =>
    /\ Raw = Object(Str(ImageUrl), Undefined, Undefined, Undefined, Undefined, Undefined) =>
         /\ outcome.res.ok
         /\ outcome.res.value =
              Object(Str(ImageUrl), JNull, JNull, Bool(FALSE), Bool(FALSE), JNull)
    /\ Raw.image_url = Undefined =>
         /\ ~outcome.res.ok
         /\ outcome.res.error =
              "Invalid instruction set - image_url is required and must be a string"

\* the shape of an instruction set
WellFormed(set, raw) ==
  /\ DOMAIN set = {Fields[i] : i \in 1..Len(Fields)}
  /\ set.auto_click.t = "boolean"
  /\ set.deeplink_priority.t = "boolean"
  /\ set.click_url = JNull \/ isValidUrl(set.click_url)
  /\ set.deeplink_url = JNull \/ set.deeplink_url.t = "string"
  /\ IF raw.auto_click_delay = Undefined
     THEN set.auto_click_delay = JNull
     ELSE /\ set.auto_click_delay.t = "number"
          /\ set.auto_click_delay # NaN
          /\ set.auto_click_delay.n >= 0

\* Number(auto_click_delay) is NaN or negative
BadDelay(raw) ==
  /\ raw.auto_click_delay # Undefined
  /\ Number(raw.auto_click_delay) = NaN \/ Number(raw.auto_click_delay).n < 0

C1_RoundTrip ==
  (validateInstructionSet(given.object).ok /\ validateDecryptionKey(given.key)) =>
    /\ outcome.op = "encrypt" => outcome.res.ok
    /\ (outcome.op = "decrypt" /\ encryptionKey = given.key) =>
         /\ outcome.res.ok
         /\ \A i \in 1..Len(Fields) :
              outcome.res.value[Fields[i]] = given.object[Fields[i]]

(***************************************************************************)
(* Properties of decrypt (SpecDecrypt)                                     *)
(***************************************************************************)
\* the last operation was a call of decrypt
IsDecrypt == outcome.op \in {"decrypt", "enhancedDecrypt"}

\* the bytes the payload at hand decodes to
Decoded == base64ToArrayBuffer(payloadParam)

\* payload and key pass the two tests at the head of decrypt
Admitted == payloadParam # <<>> /\ Len(encryptionKey) >= MIN_KEY_LENGTH

\* what the first attempt of decrypt on the payload at hand ends with, its
\* OperationError marked as such
Underlying == tryDecrypt(encryptionKey, payloadParam, "OperationError")

\* C14: decrypt rejects its preconditions in order and before any
\* cryptographic call: no payload fails as invalid input; otherwise a key of
\* fewer than 16 characters fails as invalid key; otherwise a payload that
\* decodes to fewer than 29 bytes fails as too short; in none of these cases
\* is the key imported or the AEAD primitive invoked.
C14_PreconditionsFirst ==
  IsDecrypt =>
    /\ payloadParam = <<>> =>
         /\ ~outcome.res.ok /\ outcome.res.aead = 0
         /\ outcome.res.error = "Invalid encrypted payload provided"
    /\ (payloadParam # <<>> /\ Len(encryptionKey) < MIN_KEY_LENGTH) =>
         /\ ~outcome.res.ok /\ outcome.res.aead = 0
         /\ outcome.res.cause = "Invalid or missing decryption key"
    /\ (Admitted /\ Decoded.ok
          /\ Len(Decoded.bytes) < IV_LENGTH + TAG_LENGTH + 1) =>
         /\ ~outcome.res.ok /\ outcome.res.aead = 0
         /\ outcome.res.error = "Encrypted payload too short - possibly corrupted"

\* an envelope of 28 bytes in URL-safe text was rejected as too short, by the
\* first attempt and by the second
C14_Witness ==
  /\ IsDecrypt /\ Admitted /\ given.form = "urlsafe" /\ given.plain = <<>>
  /\ given.key = DefaultKey /\ Len(Decoded.bytes) = IV_LENGTH + TAG_LENGTH
  /\ outcome.res.error = "Encrypted payload too short - possibly corrupted"

\* C15: when the first AEAD attempt of a decrypt call fails, decrypt runs the
\* pipeline exactly one more time, whatever the payload text; no call makes
\* more than two AEAD attempts.
C15_RetryOnce ==
  IsDecrypt =>
    /\ outcome.res.aead <= 2
    /\ (Admitted /\ Underlying.error = "OperationError") => outcome.res.aead = 2

\* C15 as amended: when the first AEAD attempt of a decrypt call fails, the
\* call runs the pipeline once more if fixPayloadFormat changes the payload
\* text, and not at all if it leaves the text as it is; a call of decrypt
\* makes at most two AEAD attempts, a call of the enhanced decrypt at most
\* three.
C15_RetryWhenChanged ==
  IsDecrypt =>
    /\ outcome.res.aead <= 3
    /\ outcome.op = "decrypt" => outcome.res.aead <= 2
    /\ (Admitted /\ Underlying.error = "OperationError") =>
         outcome.res.aead =
           IF fixPayloadFormat(payloadParam) # payloadParam THEN 2 ELSE 1

\* a tampered envelope in URL-safe text failed its first AEAD attempt and was
\* tried a second time
C15_Witness ==
  /\ outcome.op = "decrypt" /\ Admitted /\ given.tampered
  /\ given.form = "urlsafe" /\ Underlying.error = "OperationError"
  /\ ~outcome.res.ok /\ outcome.res.aead = 2

\* the bytes the sender encoded in the payload at hand
SentBytes ==
  IF given.key = <<>> THEN TestBytes
  ELSE Envelope(given.plain, given.key, given.iv, given.tampered)

\* the other of the two encodings, standard and URL-safe, of the same bytes
TwinText ==
  PayloadText(SentBytes, IF given.form = "standard" THEN "urlsafe" ELSE "standard")

\* C21: decrypt applied to the standard base64 encoding of an envelope (with
\* '+', '/', '=') and decrypt applied to its URL-safe encoding (with '-',
\* '_', no padding) decode the same bytes and return the identical
\* instruction set.
C21_SameInBothEncodings ==
  (outcome.op = "decrypt" /\ given.form \in {"standard", "urlsafe"}) =>
    /\ Decoded.ok /\ Decoded.bytes = SentBytes
    /\ base64ToArrayBuffer(TwinText) = Decoded
    /\ decrypt(encryptionKey, TwinText, "OperationError").ok = outcome.res.ok
    /\ decrypt(encryptionKey, TwinText, "OperationError").value = outcome.res.value

\* decrypt returned the instruction set of an unpadded URL-safe payload that
\* holds '-' and '_'
C21_Witness ==
  /\ outcome.op = "decrypt" /\ outcome.res.ok /\ given.form = "urlsafe"
  /\ Len(payloadParam) % 4 # 0
  /\ \E i \in DOMAIN payloadParam : payloadParam[i] = Minus
  /\ \E i \in DOMAIN payloadParam : payloadParam[i] = Underscore
  /\ TwinText # payloadParam

\* C16: whenever decrypt fails because of an AEAD failure or an invalid key,
\* the caller receives 'Failed to process encrypted payload' (the same for a
\* wrong key and for a tampered ciphertext), never the underlying message.
C16_Sanitized ==
  (IsDecrypt /\ payloadParam # <<>>
     /\ (Len(encryptionKey) < MIN_KEY_LENGTH \/ Underlying.error = "OperationError")) =>
    /\ ~outcome.res.ok
    /\ outcome.res.error = GenericMessage

\* the messages of parseInstructionSet and validateInstructionSet
NonSensitiveMessages ==
  {"Invalid JSON format in decrypted payload",
   "Invalid instruction set - click_url is required and must be a string",
   "Invalid instruction set - image_url must be a valid URL",
   "Invalid instruction set - click_url must be a valid URL",
   "Invalid instruction set - deeplink_url must be a string",
   "Invalid instruction set - auto_click_delay must be a non-negative number"}

\* the failures of one try that are neither of the decoding nor of the cipher
OtherFailures ==
  NonSensitiveMessages \cup {"Encrypted payload too short - possibly corrupted"}

C17_NonSensitiveUnchanged ==
  (IsDecrypt /\ Admitted /\ Underlying.error \in NonSensitiveMessages) =>
    /\ ~outcome.res.ok
    /\ outcome.res.error = Underlying.error

(***************************************************************************)
(* Properties of the routing decision (Spec)                               *)
(***************************************************************************)
\* the routings suspended on a deeplink attempt
InFlight == {i \in DOMAIN attempts : ~attempts[i].resolved}

\* C2: at any time at most one routing decision (one execution of
\* processClickAction between its start and its finally block) is in flight.
C2_OneRoutingInFlight == Cardinality(InFlight) <= 1

\* C3: the routing decision table.  A step that starts routings on
\* instruction set I: (1) neither URL set: no navigation, no deeplink attempt;
\* (2) deeplink_priority and deeplink_url: one deeplink attempt and no
\* navigation before it resolves; (3) otherwise click_url set: every routing
\* navigates to click_url, no deeplink attempt; (4) otherwise: one deeplink
\* attempt, and when it resolves no navigation and no second attempt follow.
C3_RoutingTable ==
  LET I == instructionSet
      hasClick == I.click_url # Null
      hasDeeplink == I.deeplink_url # Null
      first == I.deeplink_priority /\ hasDeeplink
  IN  /\ obs.routed > 0 =>
           /\ (~hasClick /\ ~hasDeeplink) => (obs.navs = 0 /\ obs.opened = 0)
           /\ first => (obs.opened = 1 /\ obs.routed = 1 /\ obs.navs = 0)
           /\ (~first /\ hasClick) =>
                (obs.navs = obs.routed /\ obs.opened = 0 /\ location = I.click_url)
           /\ (~first /\ ~hasClick /\ hasDeeplink) =>
                (obs.opened = 1 /\ obs.routed = 1 /\ obs.navs = 0)
      /\ \A r \in obs.res : r.cont = "only" => r.navs = 0
      /\ obs.res # {} => obs.opened = 0

\* a routing on a deeplink_url alone has timed out
C3_Witness ==
  \E r \in obs.res : r.cont = "only" /\ ~r.value /\ ~r.hadClick /\ r.navs = 0

C23_ResolvesByTimeout ==
  /\ [](\A i \in InFlight :
          attempts[i].timeout /\ now <= attempts[i].start + DEEPLINK_TIMEOUT)
  /\ [][\A i \in InFlight :
          /\ attempts'[i].resolved =>
               /\ obs'.op \in {"deeplinkTimeout", "visibilitychange", "blur"}
               /\ obs'.res # {}
               /\ \A r \in obs'.res : r.value = (obs'.op # "deeplinkTimeout")
               /\ obs'.op = "deeplinkTimeout" =>
                    now' = attempts[i].start + DEEPLINK_TIMEOUT
          /\ obs'.op = "visibilitychange" => (attempts'[i].resolved <=> hidden')
          /\ obs'.op = "blur" =>
               (attempts'[i].resolved <=> now' - attempts[i].start > BLUR_MIN_DELAY)]_vars

\* a blur 101 ms after its start has resolved an attempt to true
C23_Witness ==
  /\ obs.op = "blur" /\ obs.res # {} /\ \A r \in obs.res : r.value
  /\ \E i \in DOMAIN attempts :
       attempts[i].resolved /\ ~attempts[i].blur /\ now - attempts[i].start = 101

\* C24: once attemptDeeplinkOpen has resolved, everything it installed is
\* torn down: its visibilitychange listener and its blur listener are
\* removed, its timeout is cleared and its iframe is removed, so a later
\* visibilitychange or blur runs no code of it (and no removeChild of it
\* throws).
C24_TornDownOnResolution ==
  /\ \A i \in DOMAIN attempts :
       attempts[i].resolved =>
         (~attempts[i].vis /\ ~attempts[i].blur /\ ~attempts[i].timeout
            /\ ~attempts[i].iframe)
  /\ obs.errors = 0

(***************************************************************************)
(* Properties of failing routings (SpecError)                              *)
(***************************************************************************)
\* C11: every execution of processClickAction on an initialized handler
\* records the action exactly once through trackClickAction: in every step
\* that leaves the handler initialized, as many actions are recorded as
\* executions reach their finally block.
C11_TrackedOnce == ~instructionSet.nul => obs.tracked = obs.finished

\* C12: no error raised while routing escapes processClickAction or an event
\* handler: every error raised is caught and followed by the message
\* 'Navigation failed. Please try again.', no handler ends with an uncaught
\* error, and isProcessingClick is false once no routing is in flight.
C12_ErrorsCaught ==
  /\ obs.errors = 0
  /\ obs.shown = obs.raised
  /\ obs.raised > 0 => errorMessage = "Navigation failed. Please try again."
  /\ InFlight = {} => ~isProcessingClick

\* the callbacks of the handler: the listeners on document.body and the
\* callbacks of a deeplink attempt
Callbacks == EventTypes \cup {"deeplinkTimeout", "visibilitychange", "blur"}

\* C22: a callback that runs after destroy (the handler holds no instruction
\* set: an event handler that is still invoked, or the timeout or the
\* visibilitychange of an attempt that was in flight) is a no-op: it
\* navigates nowhere, no error leaves it and it displays no error message.
C22_NoOpAfterDestroy ==
  [][(instructionSet.nul /\ obs'.op \in Callbacks) =>
       (obs'.navs = 0 /\ obs'.errors = 0 /\ obs'.shown = 0
          /\ location' = location /\ errorMessage' = errorMessage)]_vars

\* C13: an interaction event that arrives while a routing decision is in
\* flight starts no routing, so any number of such events leaves the one
\* routing execution alone.
C13_DroppedWhileInFlight ==
  [][(obs'.op \in {"click", "touchend", "pointerup"} /\ InFlight # {})
       => obs'.routed = 0]_vars

(***************************************************************************)
(* Properties of the life cycle and the auto-click timer (SpecLife)        *)
(***************************************************************************)
\* the delay the claim expects for a requested auto_click_delay
ClaimedDelay(requested) ==
  IF requested = NullDelay THEN DEFAULT_AUTO_CLICK_DELAY ELSE requested

\* C5: the auto-click timer fires exactly auto_click_delay ms after it was
\* armed, for every delay that is set, and 3000 ms after when none is set;
\* a first initialize with auto_click false arms no timer.
C5_AutoClickTiming ==
  /\ \A t \in obs.fired : now = t.armed + ClaimedDelay(t.requested)
  /\ (obs.op = "initialize" /\ ~obs.wasSetup /\ ~instructionSet.auto_click) =>
       (autoClickTimer = NullTimer /\ timers = {})

\* C6: after cancelAutoClick or destroy autoClickTimer is null and nothing is
\* pending, a timer that was cleared never fires, and at most one auto-click
\* timer is pending, the one autoClickTimer names.
C6_SingleTimer ==
  /\ Cardinality(timers) <= 1
  /\ \A t \in timers : t.id = autoClickTimer
  /\ obs.op \in {"cancelAutoClick", "destroy"} =>
       (autoClickTimer = NullTimer /\ timers = {})
  /\ \A t \in obs.fired : t.id \notin cancelled

\* scheduleAutoClick has replaced a timer that was still pending
C6_Witness ==
  /\ obs.op \in {"scheduleAutoClick", "initialize"}
  /\ now = 0 /\ cancelled = {1} /\ autoClickTimer = 2
  /\ \E t \in timers : t.id = 2

\* C7: after destroy no ClickHandler listener is left on document.body, so an
\* event invokes no handler, and after every initialize each event type has
\* exactly one listener.
C7_DestroyRemovesListeners ==
  /\ obs.op = "destroy" => \A e \in EventTypes : listeners[e] = {}
  /\ obs.op \in EventTypes /\ ~obs.wasSetup => obs.handlers = 0
  /\ obs.op = "initialize" =>
       \A e \in RegisteredTypes(Cur) : Cardinality(listeners[e]) = 1

\* C8: an initialize on a handler whose listeners are set up leaves the
\* listeners as they are; while the handler has not been destroyed each event
\* type has exactly one listener and an event invokes its handler once.
C8_InitializeBindsOnce ==
  /\ [][(obs'.op = "initialize" /\ clickListenersSetup) => listeners' = listeners]_vars
  /\ [](clickListenersSetup /\ nextBind = 2 =>
          /\ \A e \in RegisteredTypes(Cur) : Cardinality(listeners[e]) = 1
          /\ obs.op \in EventTypes => obs.handlers = 1)

\* initialize was called on a handler that was set up and never destroyed
C8_Witness ==
  /\ obs.op = "initialize" /\ obs.wasSetup /\ nextBind = 2
  /\ \A e \in RegisteredTypes(Cur) : Cardinality(listeners[e]) = 1

(***************************************************************************)
(* Properties of the gestures (SpecGesture)                                *)
(***************************************************************************)
\* the touchend the claim accepts, in the state before it
TouchAccepted(p) ==
  /\ ~interactionState.nul
  /\ interactionState.isTouchActive
  /\ InFlight = {}
  /\ now - interactionState.touchStartTime <= MAX_TOUCH_DURATION
  /\ Movement2(interactionState.touchStartPosition, p)
       <= MAX_TOUCH_MOVEMENT * MAX_TOUCH_MOVEMENT

\* C9: a touchend routes a click if and only if a touchstart made the touch
\* active, no routing is in progress, at most 2000 ms passed since the
\* touchstart and the touch moved at most 30 px; any other touchend is
\* discarded without navigation and without error.
C9_TouchAcceptance ==
  [][obs'.op = "touchend" =>
       /\ obs'.errors = 0
       /\ (obs'.routed >= 1) <=> TouchAccepted(obs'.point)
       /\ ~TouchAccepted(obs'.point) => obs'.navs = 0]_vars

\* C10 as claimed: every click and every pointerup received by an initialized
\* handler while no routing is in progress routes a click action.
C10_RoutesUnconditionally ==
  [][(obs'.op \in {"click", "pointerup"} /\ clickListenersSetup /\ InFlight = {})
       => obs'.routed >= 1]_vars

\* C10 as amended: on an initialized handler and while no routing is in
\* progress, every click routes, and a pointerup routes exactly when the
\* pointer is active (isPointerActive) and the last pointerdown, mousedown or
\* touchstart was a pointerdown (lastInteractionType = 'pointer'); the time
\* since the pointerdown plays no part.
C10_ClickRoutesPointerGated ==
  [][(clickListenersSetup /\ InFlight = {}) =>
       /\ obs'.op = "click" => obs'.routed >= 1
       /\ obs'.op = "pointerup" =>
            ((obs'.routed >= 1) <=>
               (interactionState.isPointerActive
                  /\ interactionState.lastInteractionType = "pointer"))]_vars

\* a pointerup was not routed because a touchstart followed the pointerdown
C10_Witness ==
  /\ obs.op = "pointerup" /\ obs.routed = 0 /\ obs.wasSetup
  /\ interactionState.lastInteractionType = "touch"
  /\ InFlight = {}

(***************************************************************************)
(* SpecApp: the page loads and App runs its flow on the payload of the     *)
(* URL: no payload, a payload that is too short, or an envelope (of an     *)
(* instruction set, of one without image_url, of no JSON) in one of three  *)
(* texts, intact or with its last byte changed.  A service worker may      *)
(* control the page; image loads end as the network lets them.             *)
(***************************************************************************)
NoImageObject ==
  Object(Undefined, Str(ClickUrl), Undefined, Bool(FALSE), Bool(FALSE), Undefined)

AppPlaintexts == {stringify(ValidObject), stringify(NoImageObject), <<1>>}

\* URLSearchParams.get('payload') of the URLs the page is opened with
AppSearches ==
  {NullParam, PayloadText(TestBytes, "standard")} \cup
  {PayloadText(Envelope(plain, DefaultKey, EnvelopeIV, tampered), form) :
     plain \in AppPlaintexts, form \in Forms, tampered \in BOOLEAN}

AppPages == {NewPage(search, controller, 0) : search \in AppSearches, controller \in BOOLEAN}

\* a step of the page
AppStep(s, t) ==
  /\ t.now <= MaxPageTime
  /\ t.app.loads <= MaxPageLoads
  /\ Become(History(s, t))

\* the browser loads the page anew: a new document, a new App
loadPage(s, search) ==
  [s EXCEPT !.instructionSet = NoInstructionSet,
            !.clickListenersSetup = FALSE,
            !.autoClickTimer = NullTimer,
            !.isProcessingClick = FALSE,
            !.interactionState = NoInteractionState,
            !.listeners = [e \in EventTypes |-> {}],
            !.timers = {},
            !.errorMessage = "",
            !.hidden = FALSE,
            !.app = NewPage(search, s.app.controller, s.app.loads + 1)]

\* App.initialize() up to the end of phase 1
AppParseUrlParameters ==
  /\ app.pc = "parse"
  /\ LET s == Begin("parseUrlParameters") IN AppStep(s, parseUrlParameters(s))

\* phase 2
AppDecryptInstructionSet ==
  /\ app.pc = "decrypt"
  /\ \E operationError \in OperationErrorMessages :
       LET s == Begin("decryptInstructionSet")
       IN  AppStep(s, decryptInstructionSet(
                        s, decrypt(encryptionKey, app.encryptedPayload, operationError)))

\* phase 3
AppLoadAndDisplayImage ==
  /\ app.pc = "image"
  /\ \E ending \in LoadOutcomes :
       LET s == Begin("loadAndDisplayImage") IN AppStep(s, loadAndDisplayImage(s, ending))

\* phase 4 and the end of the flow
AppSetupClickHandling ==
  /\ app.pc = "clicks"
  /\ LET s == Call("setupClickHandling") IN AppStep(s, setupClickHandling(s))

\* the task whose time has come
Due(task) ==
  /\ task \in app.tasks
  /\ \A other \in app.tasks : task.at <= other.at
  /\ \A d \in Deadlines : task.at <= d

\* the page at the time of a task, the task taken off
AtTask(op, task) ==
  [Begin(op) EXCEPT !.now = IF task.at > now THEN task.at ELSE now,
                    !.app.tasks = @ \ {task}]

\* attemptRetry goes on after its delay
AppRetry ==
  \E task \in app.tasks, ending \in LoadOutcomes :
    /\ task.kind = "retry" /\ Due(task)
    /\ LET s == AtTask("attemptRetry", task)
       IN  AppStep(s, resumeAttemptRetry(s, task, ending))

\* the report of DisplayController reaches window.errorHandler.handleError
AppReportImageError ==
  \E task \in app.tasks :
    /\ task.kind = "report" /\ Due(task)
    /\ LET s == AtTask("handleError", task)
       IN  AppStep(s, handleError(s, task.error, task.context, task.metadata))

\* window.location.reload() 300 ms after the message to the service worker
AppReload ==
  \E task \in app.tasks :
    /\ task.kind = "reload" /\ Due(task)
    /\ LET s == AtTask("reload", task) IN AppStep(s, loadPage(s, s.app.search))

\* the navigation that the assignment to window.location.href began
AppNavigate ==
  /\ app.href # NullParam
  /\ LET s == Begin("navigate") IN AppStep(s, loadPage(s, s.app.href))

AppInit == InitOf({TRUE}, {<<>>}, AppPages)

AppNext ==
  \/ AppParseUrlParameters
  \/ AppDecryptInstructionSet
  \/ AppLoadAndDisplayImage
  \/ AppSetupClickHandling
  \/ AppRetry
  \/ AppReportImageError
  \/ AppReload
  \/ AppNavigate

SpecApp == AppInit /\ [][AppNext]_vars

(***************************************************************************)
(* Properties of the application flow (SpecApp)                            *)
(***************************************************************************)
\* the phases of startApplicationFlow, in their order
FlowPhases ==
  <<"parsing_parameters", "decrypting_payload", "loading_image",
    "setting_up_interactions">>

\* the ClickHandler holds an instruction set, a listener or a timer
Armed ==
  \/ ~instructionSet.nul
  \/ clickListenersSetup
  \/ autoClickTimer # NullTimer
  \/ timers # {}
  \/ \E e \in EventTypes : listeners[e] # {}

\* C26: the phases of the App flow end in the order parse parameters,
\* decrypt, load image, set up click handling, and none ends after a phase
\* that failed; the ClickHandler holds an instruction set, a listener or a
\* timer only when the first three phases succeeded, and then its
\* instruction set is the one decrypt returns for the payload that was parsed
C26_PhasesInOrder ==
  /\ Len(app.results) <= Len(FlowPhases)
  /\ \A i \in DOMAIN app.results :
       /\ app.results[i].phase = FlowPhases[i]
       /\ i < Len(app.results) => app.results[i].success
  /\ Armed =>
       /\ Len(app.results) = Len(FlowPhases)
       /\ \A i \in DOMAIN app.results : app.results[i].success
       /\ LET decrypted == decrypt(encryptionKey, app.encryptedPayload, "")
          IN  decrypted.ok /\ instructionSet = AsInstructionSet(decrypted.value)

\* the flow has ended with the listeners bound and the auto-click timer armed
C26_Witness ==
  /\ Len(app.results) = Len(FlowPhases)
  /\ clickListenersSetup /\ autoClickTimer # NullTimer
  /\ instructionSet.click_url = ClickUrl

\* C29: the degradation for decryption failures reloads the page at most
\* once, also when a service worker controls the page
C29_ReloadsAtMostOnce == app.loads <= 1

RetryMessages == {RetryMessage(n) : n \in 1..maxRetryAttempts}

\* C30: the retry counter of a context never exceeds maxRetryAttempts, and
\* once the flow has returned with no retry, report or navigation pending
\* the page does not show a 'Retrying... (n/3)' text
C30_HandlingEnds ==
  /\ \A k \in RetryKeys : app.retryAttempts[k] <= maxRetryAttempts
  /\ (app.pc = "returned" /\ app.tasks = {} /\ app.href = NullParam)
       => errorMessage \notin RetryMessages

====
